---- MODULE Spec2Model ----
(***************************************************************************)
(* The OpenGL binding generator of the build tools (tools/src/gl/api.rs,   *)
(* driven by tools/src/command/glemit.rs and by the GLAPI generator of     *)
(* tools/src/project/generator.rs), as a state machine.                    *)
(*                                                                         *)
(* A string is a sequence of one-character strings.  Tag names and         *)
(* attribute keys, which the code only compares with literals, stay        *)
(* atomic.  An XML node is a record [tag, attrs, children]; attrs is a     *)
(* function from the attribute keys that are present to their values.      *)
(* Text positions (TextPos) carried by the errors are left out.            *)
(***************************************************************************)
EXTENDS Integers, Sequences, FiniteSets, TLC

VARIABLES
    input,         \* the argument of the tool function that a run applies
    returned,      \* what that function has returned so far
    config,        \* GLAPI.config: NoConfig or Some(Config)
    properties,    \* the "api", "link" and "config" properties of the GLAPI
                   \* generator
    registry,      \* the root node of the registry document
    api,           \* the APISpec of the requested surface
    link,          \* the APISpec of the link-time surface
    entry_points,  \* glemit --entry-points: NoFile or the lines of the file
    pc,            \* position in API::parse / Args::run
    spec,          \* FeatureSpec (from_specs), once computed
    features,      \* FeatureSet (build), once computed
    enums,         \* the emitted enum declarations (emit_enums)
    functions,     \* Vec<Function> (Function::parse_all)
    extensions,    \* API.extensions
    bindings,      \* Bindings {header, data}
    files,         \* the two output files on disk
    error          \* the error returned, <<>> while there is none

vars == <<input, returned, config, properties, registry, api, link, entry_points, pc, spec, features, enums,
          functions, extensions, bindings, files, error>>

-----------------------------------------------------------------------------
(* Bounds of the model *)

\* Number of top-level children of the registry that Init varies.
MaxTop == 2

\* Number of children of the <enums> block that Init varies.
MaxEnums == 2

\* Number of children of the <commands> block that Init varies.
MaxCommands == 3

\* The most <extension> items of an <extensions> block, and the most
\* extension names of an APISpec.
MaxExtensions == 2
MaxRequest == 2

\* The most pieces a property text is put together from.
MaxPieces == 3

-----------------------------------------------------------------------------
(* Strings *)

s_gl == <<"g", "l">>
s_core == <<"c", "o", "r", "e">>
s_compat == <<"c", "o", "m", "p", "a", "t">>
s_gles2 == <<"g", "l", "e", "s", "2">>
s_bitmask == <<"b", "i", "t", "m", "a", "s", "k">>
s_GLenum == <<"G", "L", "e", "n", "u", "m">>
s_GLbitfield == <<"G", "L", "b", "i", "t", "f", "i", "e", "l", "d">>
s_unsigned == <<"u", "n", "s", "i", "g", "n", "e", "d">>
s_ull == <<"u", "l", "l">>
s_u == <<"u">>
s_unsigned_long_long == s_unsigned \o <<" ", "l", "o", "n", "g", " ", "l", "o", "n", "g">>
s_void == <<"v", "o", "i", "d">>
s_int == <<"i", "n", "t">>
s_GLint == <<"G", "L", "i", "n", "t">>

glA == <<"g", "l", "A">>
glB == <<"g", "l", "B">>
\* A name that does not fit one line of a generated string literal.
s_x4 == <<"C", "l", "i", "p">>
s_x16 == s_x4 \o s_x4 \o s_x4 \o s_x4
glC == <<"g", "l">> \o s_x16 \o s_x16 \o s_x16 \o s_x16 \o s_x16
glZ == <<"g", "l", "Z">>
glY == <<"g", "l", "Y">>
GL_X == <<"G", "L", "_", "X">>
GL_Y == <<"G", "L", "_", "Y">>
GL_E == <<"G", "L", "_", "E">>
GL_F == <<"G", "L", "_", "F">>
GL_N == <<"G", "L", "_", "N">>

v_1_0 == <<"1", ".", "0">>
v_1_1 == <<"1", ".", "1">>
v_2_0 == <<"2", ".", "0">>
v_bad == <<"2">>
v_4_0 == <<"4", ".", "0">>

Digits == {"0", "1", "2", "3", "4", "5", "6", "7", "8", "9"}

DigitValue(c) ==
    CASE c = "0" -> 0 [] c = "1" -> 1 [] c = "2" -> 2 [] c = "3" -> 3
      [] c = "4" -> 4 [] c = "5" -> 5 [] c = "6" -> 6 [] c = "7" -> 7
      [] c = "8" -> 8 [] c = "9" -> 9

-----------------------------------------------------------------------------
(* Option and Result *)

\* Option::None.  "<" cannot occur in an attribute value or in a name.
None == <<"<none>">>

\* Option of a value that is not a string.
Some(v) == [some |-> TRUE, value |-> v]
Nothing == [some |-> FALSE]

Ok(v) == [ok |-> TRUE, value |-> v]
Err(e) == [ok |-> FALSE, error |-> e]

-----------------------------------------------------------------------------
(* XML nodes: roxmltree::Node and tools/src/xmlparse.rs *)

NoAttrs == [a \in {} |-> None]

Element(tag, attrs, children) ==
    [tag |-> tag, attrs |-> attrs, children |-> children]

Text(text) == [tag |-> "#text", attrs |-> [text |-> text], children |-> <<>>]

is_element(node) == node.tag # "#text"

attribute(node, name) ==
    IF name \in DOMAIN node.attrs THEN node.attrs[name] ELSE None

missing_attribute(node, name) == <<"XML", "MissingAttribute", name, node.tag>>

unexpected_tag(node, parent) ==
    IF parent # ""
    THEN <<"XML", "UnexpectedTag", node.tag, parent>>
    ELSE <<"XML", "UnexpectedRoot", node.tag>>

require_attribute(node, name) ==
    IF attribute(node, name) = None
    THEN Err(missing_attribute(node, name))
    ELSE Ok(attribute(node, name))

element_children_unchecked(node) ==
    SelectSeq(node.children, LAMBDA c : is_element(c))

element_children_tag(node, name) ==
    SelectSeq(node.children, LAMBDA c : is_element(c) /\ c.tag = name)

-----------------------------------------------------------------------------
(* Version *)

Version(major, minor) == <<major, minor>>

\* derive(PartialOrd, Ord) on the tuple struct: lexicographic.
Version_le(a, b) == a[1] < b[1] \/ (a[1] = b[1] /\ a[2] <= b[2])
Version_gt(a, b) == ~Version_le(a, b)
Version_lt(a, b) == Version_le(a, b) /\ a # b

\* str::split_once: the parts before and after the first occurrence of ch.
split_once(text, ch) ==
    IF \E i \in 1..Len(text) : text[i] = ch
    THEN LET i == CHOOSE k \in 1..Len(text) :
                      text[k] = ch /\ \A j \in 1..(k - 1) : text[j] # ch
         IN  Some(<<SubSeq(text, 1, i - 1), SubSeq(text, i + 1, Len(text))>>)
    ELSE Nothing

RECURSIVE DecimalValue(_)
DecimalValue(digits) ==
    IF Len(digits) = 0 THEN 0
    ELSE 10 * DecimalValue(SubSeq(digits, 1, Len(digits) - 1))
         + DigitValue(digits[Len(digits)])

\* The digit loop of from_str_radix: result * 10 + digit with checked
\* arithmetic, None as soon as the value leaves eight bits.
RECURSIVE u8_checked_digits(_, _)
u8_checked_digits(result, digits) ==
    IF Len(digits) = 0 THEN Some(result)
    ELSE IF result * 10 + DigitValue(Head(digits)) > 255 THEN Nothing
    ELSE u8_checked_digits(result * 10 + DigitValue(Head(digits)),
                           Tail(digits))

\* u8::from_str_radix(src, 10).ok(): an optional "+", then one or more
\* decimal digits whose value fits eight bits.
u8_from_str_radix(src) ==
    LET digits == IF Len(src) # 0 /\ src[1] = "+" THEN Tail(src) ELSE src
    IN  IF Len(digits) = 0 THEN Nothing
        ELSE IF \E i \in 1..Len(digits) : digits[i] \notin Digits THEN Nothing
        ELSE u8_checked_digits(0, digits)

Version_parse(text) ==
    LET parts == split_once(text, ".")
    IN  IF ~parts.some THEN Nothing
        ELSE LET major == u8_from_str_radix(parts.value[1])
                 minor == u8_from_str_radix(parts.value[2])
             IN  IF ~major.some \/ ~minor.some THEN Nothing
                 ELSE Some(Version(major.value, minor.value))

-----------------------------------------------------------------------------
(* FeatureSpec *)

Linker == "Linker"
Runtime == "Runtime"

EmptyMap == [k \in {} |-> None]
map_insert(m, k, v) == [x \in DOMAIN m \cup {k} |-> IF x = k THEN v ELSE m[x]]
map_remove(m, k) == [x \in DOMAIN m \ {k} |-> m[x]]

Range(seq) == {seq[i] : i \in 1..Len(seq)}

RECURSIVE Flatten(_)
Flatten(seqs) ==
    IF Len(seqs) = 0 THEN <<>> ELSE Head(seqs) \o Flatten(Tail(seqs))

\* The <extension> children of every <extensions> child, in document order.
extension_items(node) ==
    LET blocks == element_children_tag(node, "extensions")
    IN  Flatten([b \in 1..Len(blocks) |->
                    element_children_tag(blocks[b], "extension")])

Min(S) == CHOOSE i \in S : \A j \in S : i <= j

\* all_extensions: the names of every <extensions><extension>, or the
\* error of the first such element without a name.
all_extensions(node) ==
    LET items == extension_items(node)
        bad == {i \in 1..Len(items) : attribute(items[i], "name") = None}
    IN  IF bad # {}
        THEN Err(missing_attribute(items[Min(bad)], "name"))
        ELSE Ok({items[i].attrs["name"] : i \in 1..Len(items)})

\* Mutant of FeatureSpec_from_specs: the link list is not validated.
FeatureSpec_from_specs_api_only(api_spec, link_spec, node) ==
    LET all == all_extensions(node)
    IN  IF ~all.ok THEN all
        ELSE
        LET api_bad == {i \in 1..Len(api_spec.extensions) :
                           api_spec.extensions[i] \notin all.value}
        IN  IF api_bad # {}
            THEN Err(<<"UnknownExtension", api_spec.extensions[Min(api_bad)]>>)
            ELSE Ok([max_version |-> api_spec.version,
                     linkable_version |-> link_spec.version,
                     extensions |->
                         [e \in Range(api_spec.extensions) |->
                             IF e \in Range(link_spec.extensions)
                             THEN Linker ELSE Runtime]])

\* Mutant of FeatureSpec_from_specs: the extensions of the link list are
\* requested as well.
FeatureSpec_from_specs_link_requests(api_spec, link_spec, node) ==
    LET all == all_extensions(node)
    IN  IF ~all.ok THEN all
        ELSE
        LET bad == {i \in 1..Len(api_spec.extensions \o link_spec.extensions) :
                       (api_spec.extensions \o link_spec.extensions)[i]
                           \notin all.value}
        IN  IF bad # {}
            THEN Err(<<"UnknownExtension",
                       (api_spec.extensions \o link_spec.extensions)[Min(bad)]>>)
            ELSE Ok([max_version |-> api_spec.version,
                     linkable_version |-> link_spec.version,
                     extensions |->
                         [e \in Range(api_spec.extensions)
                                   \cup Range(link_spec.extensions) |->
                             IF e \in Range(link_spec.extensions)
                             THEN Linker ELSE Runtime]])

FeatureSpec_from_specs(api_spec, link_spec, node) ==
    LET all == all_extensions(node)
    IN  IF ~all.ok THEN all
        ELSE
        LET known == all.value
            api_bad == {i \in 1..Len(api_spec.extensions) :
                           api_spec.extensions[i] \notin known}
            link_bad == {i \in 1..Len(link_spec.extensions) :
                            link_spec.extensions[i] \notin known}
            requested == Range(api_spec.extensions)
        IN  IF api_bad # {}
            THEN Err(<<"UnknownExtension", api_spec.extensions[Min(api_bad)]>>)
            ELSE IF link_bad # {}
            THEN Err(<<"UnknownExtension", link_spec.extensions[Min(link_bad)]>>)
            ELSE Ok([max_version |-> api_spec.version,
                     linkable_version |-> link_spec.version,
                     extensions |->
                         [e \in requested |->
                             IF e \in Range(link_spec.extensions)
                             THEN Linker ELSE Runtime]])

-----------------------------------------------------------------------------
(* FeatureSet *)

EmptyFeatureSet == [enums |-> {}, commands |-> EmptyMap]

\* The loop of parse_require over node.children from index i on.
RECURSIVE parse_require_loop(_, _, _, _)
parse_require_loop(set, node, i, availability) ==
    IF i > Len(node.children) THEN Ok(set)
    ELSE
    LET child == node.children[i]
    IN  IF ~is_element(child)
        THEN parse_require_loop(set, node, i + 1, availability)
        ELSE IF child.tag = "command"
        THEN LET name == require_attribute(child, "name")
             IN  IF ~name.ok THEN name
                 ELSE parse_require_loop(
                          [set EXCEPT !.commands =
                              map_insert(@, name.value, availability)],
                          node, i + 1, availability)
        ELSE IF child.tag = "enum"
        THEN LET name == require_attribute(child, "name")
             IN  IF ~name.ok THEN name
                 ELSE parse_require_loop(
                          [set EXCEPT !.enums = @ \cup {name.value}],
                          node, i + 1, availability)
        ELSE IF child.tag = "type"
        THEN parse_require_loop(set, node, i + 1, availability)
        ELSE Err(unexpected_tag(child, node.tag))

parse_require(set, node, availability) ==
    parse_require_loop(set, node, 1, availability)

\* The loop of parse_remove over node.children from index i on.
RECURSIVE parse_remove_loop(_, _, _)
parse_remove_loop(set, node, i) ==
    IF i > Len(node.children) THEN Ok(set)
    ELSE
    LET child == node.children[i]
    IN  IF ~is_element(child)
        THEN parse_remove_loop(set, node, i + 1)
        ELSE IF child.tag = "command"
        THEN LET name == require_attribute(child, "name")
             IN  IF ~name.ok THEN name
                 ELSE parse_remove_loop(
                          [set EXCEPT !.commands = map_remove(@, name.value)],
                          node, i + 1)
        ELSE IF child.tag = "enum"
        THEN LET name == require_attribute(child, "name")
             IN  IF ~name.ok THEN name
                 ELSE parse_remove_loop(
                          [set EXCEPT !.enums = @ \ {name.value}],
                          node, i + 1)
        ELSE IF child.tag = "type"
        THEN parse_remove_loop(set, node, i + 1)
        ELSE Err(unexpected_tag(child, node.tag))

\* Mutant of parse_remove: the commands are left in the map.
parse_remove_keeps_commands(set, node) ==
    LET profile == require_attribute(node, "profile")
        r == parse_remove_loop(set, node, 1)
    IN  IF ~profile.ok THEN profile
        ELSE IF profile.value # s_core
        THEN Err(<<"InvalidRemoveProfile">>)
        ELSE IF r.ok
        THEN Ok([r.value EXCEPT !.commands = set.commands])
        ELSE r

\* Mutant of parse_remove: the profile is read and not compared.
parse_remove_any_profile(set, node) ==
    LET profile == require_attribute(node, "profile")
    IN  IF ~profile.ok THEN profile
        ELSE parse_remove_loop(set, node, 1)

parse_remove(set, node) ==
    LET profile == require_attribute(node, "profile")
    IN  IF ~profile.ok THEN profile
        ELSE IF profile.value # s_core
        THEN Err(<<"InvalidRemoveProfile">>)
        ELSE parse_remove_loop(set, node, 1)

\* Mutant of feature_availability: "<" for "<=".
feature_availability_strict(version, api_spec) ==
    IF Version_le(version, api_spec.linkable_version)
       /\ version # api_spec.linkable_version
    THEN Linker ELSE Runtime

\* if version <= api.linkable_version { Linker } else { Runtime }
feature_availability(version, api_spec) ==
    IF Version_le(version, api_spec.linkable_version) THEN Linker ELSE Runtime

\* Mutant of feature_skipped: the two components compared one by one.
feature_skipped_componentwise(version, api_spec) ==
    version[1] > api_spec.max_version[1]
    \/ version[2] > api_spec.max_version[2]

\* if version > api.max_version { return Ok(()) }
feature_skipped(version, api_spec) ==
    Version_gt(version, api_spec.max_version)

\* The loop of parse_feature over node.children from index i on.
RECURSIVE parse_feature_loop(_, _, _, _)
parse_feature_loop(set, node, i, availability) ==
    IF i > Len(node.children) THEN Ok(set)
    ELSE
    LET child == node.children[i]
    IN  IF ~is_element(child)
        THEN parse_feature_loop(set, node, i + 1, availability)
        ELSE IF child.tag = "require"
        THEN LET r == parse_require(set, child, availability)
             IN  IF ~r.ok THEN r
                 ELSE parse_feature_loop(r.value, node, i + 1, availability)
        ELSE IF child.tag = "remove"
        THEN LET r == parse_remove(set, child)
             IN  IF ~r.ok THEN r
                 ELSE parse_feature_loop(r.value, node, i + 1, availability)
        ELSE Err(unexpected_tag(child, node.tag))

parse_feature(set, node, api_spec) ==
    LET api_attr == require_attribute(node, "api")
        number == require_attribute(node, "number")
    IN  IF ~api_attr.ok THEN api_attr
        ELSE IF api_attr.value # s_gl THEN Ok(set)
        ELSE IF ~number.ok THEN number
        ELSE
        LET version == Version_parse(number.value)
        IN  IF ~version.some
            THEN Err(<<"InvalidVersion", number.value>>)
            ELSE IF feature_skipped(version.value, api_spec) THEN Ok(set)
            ELSE parse_feature_loop(
                     set, node, 1,
                     feature_availability(version.value, api_spec))

\* The loop of parse_extension over the element children from index i on.
RECURSIVE parse_extension_loop(_, _, _, _)
parse_extension_loop(set, node, i, call_type) ==
    LET children == element_children_unchecked(node)
    IN  IF i > Len(children) THEN Ok(set)
        ELSE IF children[i].tag = "require"
        THEN LET r == parse_require(set, children[i], call_type)
             IN  IF ~r.ok THEN r
                 ELSE parse_extension_loop(r.value, node, i + 1, call_type)
        ELSE Err(unexpected_tag(children[i], node.tag))

\* Mutant of parse_extension: the children of an extension that is not
\* requested are examined as well.
parse_extension_examined(set, node, api_spec) ==
    LET name == require_attribute(node, "name")
    IN  IF ~name.ok THEN name
        ELSE parse_extension_loop(
                 set, node, 1,
                 IF name.value \in DOMAIN api_spec.extensions
                 THEN api_spec.extensions[name.value] ELSE Runtime)

parse_extension(set, node, api_spec) ==
    LET name == require_attribute(node, "name")
    IN  IF ~name.ok THEN name
        ELSE IF name.value \in DOMAIN api_spec.extensions
        THEN parse_extension_loop(set, node, 1,
                                  api_spec.extensions[name.value])
        ELSE Ok(set)

\* The loop over the <extension> items of one <extensions> child.
RECURSIVE build_extensions_loop(_, _, _, _)
build_extensions_loop(set, items, i, api_spec) ==
    IF i > Len(items) THEN Ok(set)
    ELSE LET r == parse_extension(set, items[i], api_spec)
         IN  IF ~r.ok THEN r
             ELSE build_extensions_loop(r.value, items, i + 1, api_spec)

\* The loop of build over the element children of the registry.
RECURSIVE build_loop(_, _, _, _)
build_loop(set, children, i, api_spec) ==
    IF i > Len(children) THEN Ok(set)
    ELSE
    LET child == children[i]
        r == IF child.tag = "feature"
             THEN parse_feature(set, child, api_spec)
             ELSE IF child.tag = "extensions"
             THEN build_extensions_loop(
                      set, element_children_tag(child, "extension"), 1,
                      api_spec)
             ELSE Ok(set)
    IN  IF ~r.ok THEN r
        ELSE build_loop(r.value, children, i + 1, api_spec)

\* Mutant of FeatureSet_build: every <feature> first, then every <extensions>.
FeatureSet_build_two_phase(node, api_spec) ==
    LET first == build_loop(EmptyFeatureSet,
                            element_children_tag(node, "feature"), 1, api_spec)
    IN  IF ~first.ok THEN first
        ELSE build_loop(first.value,
                        element_children_tag(node, "extensions"), 1, api_spec)

FeatureSet_build(node, api_spec) ==
    build_loop(EmptyFeatureSet, element_children_unchecked(node), 1, api_spec)

-----------------------------------------------------------------------------
(* TypeMap *)

TYPE_MAP ==
    {<<<<"G", "L", "b", "o", "o", "l", "e", "a", "n">>,
       <<"u", "n", "s", "i", "g", "n", "e", "d", " ", "c", "h", "a", "r">>>>,
     <<<<"G", "L", "b", "i", "t", "f", "i", "e", "l", "d">>,
       <<"u", "n", "s", "i", "g", "n", "e", "d">>>>,
     <<<<"G", "L", "b", "y", "t", "e">>,
       <<"c", "h", "a", "r">>>>,
     <<<<"G", "L", "u", "b", "y", "t", "e">>,
       <<"u", "n", "s", "i", "g", "n", "e", "d", " ", "c", "h", "a", "r">>>>,
     <<<<"G", "L", "s", "h", "o", "r", "t">>,
       <<"s", "h", "o", "r", "t">>>>,
     <<<<"G", "L", "u", "s", "h", "o", "r", "t">>,
       <<"u", "n", "s", "i", "g", "n", "e", "d", " ", "s", "h", "o", "r", "t">>>>,
     <<<<"G", "L", "i", "n", "t">>,
       <<"i", "n", "t">>>>,
     <<<<"G", "L", "u", "i", "n", "t">>,
       <<"u", "n", "s", "i", "g", "n", "e", "d">>>>,
     <<<<"G", "L", "s", "i", "z", "e", "i">>,
       <<"i", "n", "t">>>>,
     <<<<"G", "L", "f", "l", "o", "a", "t">>,
       <<"f", "l", "o", "a", "t">>>>,
     <<<<"G", "L", "c", "l", "a", "m", "p", "f">>,
       <<"f", "l", "o", "a", "t">>>>,
     <<<<"G", "L", "d", "o", "u", "b", "l", "e">>,
       <<"d", "o", "u", "b", "l", "e">>>>,
     <<<<"G", "L", "c", "l", "a", "m", "p", "d">>,
       <<"d", "o", "u", "b", "l", "e">>>>,
     <<<<"G", "L", "c", "h", "a", "r">>,
       <<"c", "h", "a", "r">>>>,
     <<<<"G", "L", "i", "n", "t", "p", "t", "r">>,
       <<"l", "o", "n", "g", " ", "l", "o", "n", "g">>>>,
     <<<<"G", "L", "s", "i", "z", "e", "i", "p", "t", "r">>,
       <<"l", "o", "n", "g", " ", "l", "o", "n", "g">>>>,
     <<<<"G", "L", "i", "n", "t", "6", "4">>,
       <<"l", "o", "n", "g", " ", "l", "o", "n", "g">>>>,
     <<<<"G", "L", "u", "i", "n", "t", "6", "4">>,
       <<"u", "n", "s", "i", "g", "n", "e", "d", " ", "l", "o", "n", "g", " ", "l", "o", "n", "g">>>>,
     <<<<"G", "L", "D", "E", "B", "U", "G", "P", "R", "O", "C", "K", "H", "R">>,
       <<"G", "L", "D", "E", "B", "U", "G", "P", "R", "O", "C">>>>}

TypeMap_map(ty) ==
    IF \E e \in TYPE_MAP : e[1] = ty
    THEN (CHOOSE e \in TYPE_MAP : e[1] = ty)[2]
    ELSE ty

-----------------------------------------------------------------------------
(* Enums *)

\* The declaration "constexpr {ty} {name} = {value};" as its three arguments.
EnumDeclaration(ty, name, value) == [ty |-> ty, name |-> name, value |-> value]

\* Mutant of alias_value: the literal is always used.
alias_value_literal(emitted, name, alias, definition) ==
    Ok(definition[2])

\* Mutant of alias_value: the alias target is used without comparing.
alias_value_unchecked(emitted, name, alias, definition) ==
    IF alias = None \/ alias \notin DOMAIN emitted
    THEN Ok(definition[2])
    ELSE Ok(alias)

\* The value expression of an enum: match item.attribute("alias") { .. }
alias_value(emitted, name, alias, definition) ==
    IF alias = None THEN Ok(definition[2])
    ELSE IF alias \notin DOMAIN emitted THEN Ok(definition[2])
    ELSE IF definition # emitted[alias]
    THEN Err(<<"AliasConflict", name, alias>>)
    ELSE Ok(alias)

\* Mutant of enum_duplicate: a name is never taken as emitted before.
enum_duplicate_never(emitted, name) == FALSE

\* if emitted.contains_key(name) { return Err(DuplicateEnum) }
enum_duplicate(emitted, name) == name \in DOMAIN emitted

\* The default type of an <enums> block, before the type map.
enums_block_type(child) ==
    IF attribute(child, "type") = None THEN Ok(s_GLenum)
    ELSE IF attribute(child, "type") = s_bitmask THEN Ok(s_GLbitfield)
    ELSE Err(<<"panic", "type", attribute(child, "type")>>)

\* The type of one <enum>: its own type attribute, or the block's.
enum_item_type(item, ty) ==
    IF attribute(item, "type") = None THEN Ok(ty)
    ELSE IF attribute(item, "type") = s_u THEN Ok(s_unsigned)
    ELSE IF attribute(item, "type") = s_ull THEN Ok(s_unsigned_long_long)
    ELSE Err(<<"UnknownType", attribute(item, "type")>>)

\* One <enum> child of an <enums> block; st = [out, emitted].
emit_enum_item(st, selected, item, ty) ==
    LET name == require_attribute(item, "name")
        item_ty == enum_item_type(item, ty)
        value == require_attribute(item, "value")
    IN  IF attribute(item, "api") # None /\ attribute(item, "api") # s_gl
        THEN Ok(st)
        ELSE IF ~name.ok THEN name
        ELSE IF name.value \notin selected THEN Ok(st)
        ELSE IF enum_duplicate(st.emitted, name.value)
        THEN Err(<<"DuplicateEnum", name.value>>)
        ELSE IF ~item_ty.ok THEN item_ty
        ELSE IF ~value.ok THEN value
        ELSE
        LET definition == <<item_ty.value, value.value>>
            expr == alias_value(st.emitted, name.value,
                                attribute(item, "alias"), definition)
        IN  IF ~expr.ok THEN expr
            ELSE Ok([out |-> Append(st.out,
                                    EnumDeclaration(item_ty.value, name.value,
                                                    expr.value)),
                     emitted |-> map_insert(st.emitted, name.value,
                                            definition)])

\* The loop over the element children of one <enums> block from index i on.
RECURSIVE emit_enums_items(_, _, _, _, _)
emit_enums_items(st, selected, items, i, ty) ==
    IF i > Len(items) THEN Ok(st)
    ELSE IF items[i].tag = "enum"
    THEN LET r == emit_enum_item(st, selected, items[i], ty)
         IN  IF ~r.ok THEN r
             ELSE emit_enums_items(r.value, selected, items, i + 1, ty)
    ELSE IF items[i].tag = "unused"
    THEN emit_enums_items(st, selected, items, i + 1, ty)
    ELSE Err(unexpected_tag(items[i], "enums"))

\* The loop over the <enums> children of the registry from index b on.
RECURSIVE emit_enums_blocks(_, _, _, _)
emit_enums_blocks(st, selected, blocks, b) ==
    IF b > Len(blocks) THEN Ok(st.out)
    ELSE
    LET ty == enums_block_type(blocks[b])
    IN  IF ~ty.ok THEN ty
        ELSE LET r == emit_enums_items(
                          st, selected,
                          element_children_unchecked(blocks[b]), 1,
                          TypeMap_map(ty.value))
             IN  IF ~r.ok THEN r
                 ELSE emit_enums_blocks(r.value, selected, blocks, b + 1)

emit_enums(selected, node) ==
    emit_enums_blocks([out |-> <<>>, emitted |-> EmptyMap], selected,
                      element_children_tag(node, "enums"), 1)

-----------------------------------------------------------------------------
(* Functions *)

\* u8::is_ascii_whitespace: space, tab, line feed, form feed, carriage return.
AsciiWhitespace == {" ", "\t", "\n", "\f", "\r"}

\* Mutant of trim_ascii_end: trailing white space stays.
trim_ascii_end_kept(text) == text

\* <[u8]>::trim_ascii_end
RECURSIVE trim_ascii_end(_)
trim_ascii_end(text) ==
    IF Len(text) # 0 /\ text[Len(text)] \in AsciiWhitespace
    THEN trim_ascii_end(SubSeq(text, 1, Len(text) - 1))
    ELSE text

\* xmlparse::append_text_contents, the loop over node.children from i on.
RECURSIVE append_text_contents_loop(_, _, _)
append_text_contents_loop(out, node, i) ==
    IF i > Len(node.children) THEN Ok(out)
    ELSE IF is_element(node.children[i])
    THEN Err(unexpected_tag(node.children[i], node.tag))
    ELSE append_text_contents_loop(out \o node.children[i].attrs.text,
                                   node, i + 1)

append_text_contents(out, node) == append_text_contents_loop(out, node, 1)

parse_text_contents(node) == append_text_contents(<<>>, node)

\* The name and the <proto> of a <command>.
command_info(node) ==
    LET protos == element_children_tag(node, "proto")
    IN  IF Len(protos) = 0 THEN Err(<<"MissingCommandProto">>)
        ELSE
        LET proto == protos[1]
            names == element_children_tag(proto, "name")
        IN  IF Len(names) = 0 THEN Err(<<"MissingCommandName">>)
            ELSE LET name == parse_text_contents(names[1])
                 IN  IF ~name.ok THEN name
                     ELSE Ok(<<name.value, proto>>)

\* The loop of emit_return_type over node.children from index i on.
RECURSIVE emit_return_type_loop(_, _, _, _)
emit_return_type_loop(out, has_name, node, i) ==
    IF i > Len(node.children)
    THEN IF Len(trim_ascii_end(out)) = 0
         THEN Err(<<"InvalidPrototype">>)
         ELSE Ok(trim_ascii_end(out))
    ELSE
    LET child == node.children[i]
    IN  IF is_element(child)
        THEN IF child.tag = "name"
             THEN emit_return_type_loop(out, TRUE, node, i + 1)
             ELSE IF child.tag = "ptype"
             THEN IF has_name THEN Err(<<"InvalidPrototype">>)
                  ELSE LET ty == parse_text_contents(child)
                       IN  IF ~ty.ok THEN ty
                           ELSE emit_return_type_loop(
                                    out \o TypeMap_map(ty.value), has_name,
                                    node, i + 1)
             ELSE Err(unexpected_tag(child, node.tag))
        ELSE IF ~has_name
        THEN emit_return_type_loop(out \o child.attrs.text, has_name,
                                   node, i + 1)
        ELSE IF \E k \in 1..Len(child.attrs.text) :
                    child.attrs.text[k] \notin AsciiWhitespace
        THEN Err(<<"InvalidPrototype">>)
        ELSE emit_return_type_loop(out, has_name, node, i + 1)

emit_return_type(node) == emit_return_type_loop(<<>>, FALSE, node, 1)

\* The inner loop of emit_parameters over the children of one <param> from
\* index i on; st = [declarations, names, has_name].
RECURSIVE emit_parameter_items(_, _, _)
emit_parameter_items(st, param, i) ==
    IF i > Len(param.children)
    THEN IF ~st.has_name THEN Err(<<"InvalidPrototype">>) ELSE Ok(st)
    ELSE
    LET item == param.children[i]
    IN  IF is_element(item)
        THEN IF item.tag = "ptype"
             THEN LET ty == parse_text_contents(item)
                  IN  IF ~ty.ok THEN ty
                      ELSE emit_parameter_items(
                               [st EXCEPT !.declarations =
                                              @ \o TypeMap_map(ty.value)],
                               param, i + 1)
             ELSE IF item.tag = "name"
             THEN IF st.has_name THEN Err(<<"InvalidPrototype">>)
                  ELSE LET pos == Len(st.declarations)
                           r == append_text_contents(st.declarations, item)
                       IN  IF ~r.ok THEN r
                           ELSE emit_parameter_items(
                                    [declarations |-> r.value,
                                     names |-> st.names \o
                                         SubSeq(r.value, pos + 1, Len(r.value)),
                                     has_name |-> TRUE],
                                    param, i + 1)
             ELSE Err(unexpected_tag(item, param.tag))
        ELSE emit_parameter_items(
                 [st EXCEPT !.declarations = @ \o item.attrs.text],
                 param, i + 1)

\* The outer loop of emit_parameters over the <param> children from p on.
RECURSIVE emit_parameters_loop(_, _, _, _)
emit_parameters_loop(declarations, names, params, p) ==
    IF p > Len(params) THEN Ok(<<declarations, names>>)
    ELSE
    LET sep == IF p > 1 THEN <<",", " ">> ELSE <<>>
        r == emit_parameter_items([declarations |-> declarations \o sep,
                                   names |-> names \o sep,
                                   has_name |-> FALSE],
                                  params[p], 1)
    IN  IF ~r.ok THEN r
        ELSE emit_parameters_loop(r.value.declarations, r.value.names,
                                  params, p + 1)

emit_parameters(node) ==
    emit_parameters_loop(<<>>, <<>>, element_children_tag(node, "param"), 1)

\* Function::parse: Ok(Nothing) for a command that is not in the list.
Function_parse(commands, node) ==
    LET info == command_info(node)
    IN  IF ~info.ok THEN info
        ELSE IF info.value[1] \notin DOMAIN commands THEN Ok(Nothing)
        ELSE
        LET return_type == emit_return_type(info.value[2])
            parameters == emit_parameters(node)
        IN  IF ~return_type.ok THEN return_type
            ELSE IF ~parameters.ok THEN parameters
            ELSE Ok(Some([name |-> info.value[1],
                          call |-> commands[info.value[1]],
                          return_type |-> return_type.value,
                          parameter_declarations |-> parameters.value[1],
                          parameter_names |-> parameters.value[2]]))

\* Function::parse_all, the loop over the items of all <commands> blocks.
RECURSIVE Function_parse_all_loop(_, _, _, _)
Function_parse_all_loop(result, commands, items, i) ==
    IF i > Len(items) THEN Ok(result)
    ELSE IF items[i].tag # "command"
    THEN Err(unexpected_tag(items[i], "commands"))
    ELSE LET function == Function_parse(commands, items[i])
         IN  IF ~function.ok THEN function
             ELSE Function_parse_all_loop(
                      IF function.value.some
                      THEN Append(result, function.value.value)
                      ELSE result,
                      commands, items, i + 1)

Function_parse_all(commands, node) ==
    LET blocks == element_children_tag(node, "commands")
    IN  Function_parse_all_loop(
            <<>>, commands,
            Flatten([b \in 1..Len(blocks) |->
                        element_children_unchecked(blocks[b])]),
            1)

\* "GLIMPORT {} GLAPI {}({});\n" as its arguments.
emit_linked(function) ==
    [kind |-> "linked",
     return_type |-> function.return_type,
     name |-> function.name,
     parameter_declarations |-> function.parameter_declarations]

\* "{} {}({}); // undefined" as its arguments.
emit_missing(function) ==
    [kind |-> "missing",
     return_type |-> function.return_type,
     name |-> function.name,
     parameter_declarations |-> function.parameter_declarations]

\* The inline wrapper as its arguments; returns tells whether "return " is
\* written before the call through FunctionPointers[index].
emit_runtime(function, index) ==
    [kind |-> "runtime",
     return_type |-> function.return_type,
     name |-> function.name,
     parameter_declarations |-> function.parameter_declarations,
     returns |-> function.return_type # s_void,
     index |-> index,
     parameter_names |-> function.parameter_names]

-----------------------------------------------------------------------------
(* StringWriter (tools/src/emit.rs) *)

COLUMNS == 79

\* The byte 0, which is no character of the registry.
NUL == "NUL"

\* StringWriter::new; positions are counted from the opening quote.
StringWriter_new == [out |-> <<"\"">>, limit |-> 1 + (COLUMNS - 2)]

\* The 256 values of u8 in ascending order, each by the character that
\* stands for it in a text of the model: 0 is NUL, a byte that is no
\* character of a TLA+ string (the grave accent 0x60 is one) is named by
\* its two hexadecimal digits.
ByteTable ==
    <<
      NUL, "0x01", "0x02", "0x03", "0x04", "0x05", "0x06", "0x07",
      "0x08", "\t", "\n", "0x0b", "\f", "\r", "0x0e", "0x0f",
      "0x10", "0x11", "0x12", "0x13", "0x14", "0x15", "0x16", "0x17",
      "0x18", "0x19", "0x1a", "0x1b", "0x1c", "0x1d", "0x1e", "0x1f",
      " ", "!", "\"", "#", "$", "%", "&", "'",
      "(", ")", "*", "+", ",", "-", ".", "/",
      "0", "1", "2", "3", "4", "5", "6", "7",
      "8", "9", ":", ";", "<", "=", ">", "?",
      "@", "A", "B", "C", "D", "E", "F", "G",
      "H", "I", "J", "K", "L", "M", "N", "O",
      "P", "Q", "R", "S", "T", "U", "V", "W",
      "X", "Y", "Z", "[", "\\", "]", "^", "_",
      "0x60", "a", "b", "c", "d", "e", "f", "g",
      "h", "i", "j", "k", "l", "m", "n", "o",
      "p", "q", "r", "s", "t", "u", "v", "w",
      "x", "y", "z", "{", "|", "}", "~", "0x7f",
      "0x80", "0x81", "0x82", "0x83", "0x84", "0x85", "0x86", "0x87",
      "0x88", "0x89", "0x8a", "0x8b", "0x8c", "0x8d", "0x8e", "0x8f",
      "0x90", "0x91", "0x92", "0x93", "0x94", "0x95", "0x96", "0x97",
      "0x98", "0x99", "0x9a", "0x9b", "0x9c", "0x9d", "0x9e", "0x9f",
      "0xa0", "0xa1", "0xa2", "0xa3", "0xa4", "0xa5", "0xa6", "0xa7",
      "0xa8", "0xa9", "0xaa", "0xab", "0xac", "0xad", "0xae", "0xaf",
      "0xb0", "0xb1", "0xb2", "0xb3", "0xb4", "0xb5", "0xb6", "0xb7",
      "0xb8", "0xb9", "0xba", "0xbb", "0xbc", "0xbd", "0xbe", "0xbf",
      "0xc0", "0xc1", "0xc2", "0xc3", "0xc4", "0xc5", "0xc6", "0xc7",
      "0xc8", "0xc9", "0xca", "0xcb", "0xcc", "0xcd", "0xce", "0xcf",
      "0xd0", "0xd1", "0xd2", "0xd3", "0xd4", "0xd5", "0xd6", "0xd7",
      "0xd8", "0xd9", "0xda", "0xdb", "0xdc", "0xdd", "0xde", "0xdf",
      "0xe0", "0xe1", "0xe2", "0xe3", "0xe4", "0xe5", "0xe6", "0xe7",
      "0xe8", "0xe9", "0xea", "0xeb", "0xec", "0xed", "0xee", "0xef",
      "0xf0", "0xf1", "0xf2", "0xf3", "0xf4", "0xf5", "0xf6", "0xf7",
      "0xf8", "0xf9", "0xfa", "0xfb", "0xfc", "0xfd", "0xfe", "0xff"
    >>

\* The value of a byte.
u8(c) == (CHOOSE i \in 1..Len(ByteTable) : ByteTable[i] = c) - 1

\* The bytes that StringWriter::write writes as \x and two digits.
HexBytes ==
    {ByteTable[i] : i \in (1..32) \cup (128..256)} \ {"\t", "\r", "\n"}

\* format!("{:02x}", c)
hex_02x(c) ==
    LET digit == <<"0", "1", "2", "3", "4", "5", "6", "7", "8", "9",
                   "a", "b", "c", "d", "e", "f">>
    IN  <<digit[(u8(c) \div 16) + 1], digit[(u8(c) % 16) + 1]>>

\* What one round of the loop of StringWriter::write pushes for the byte c.
StringWriter_escape(c) ==
    IF 32 <= u8(c) /\ u8(c) <= 126
    THEN IF c = "\\" /\ c = "\"" THEN <<"\\", c>> ELSE <<c>>
    ELSE IF c = "\t" THEN <<"\\", "t">>
    ELSE IF c = "\r" THEN <<"\\", "r">>
    ELSE IF c = "\n" THEN <<"\\", "n">>
    ELSE <<"\\", "x">> \o hex_02x(c)

\* One round of the loop of StringWriter::write: push the byte, then break
\* the line in front of it when the text has passed the limit.
StringWriter_push(writer, c) ==
    LET start == Len(writer.out)
        pushed == writer.out \o StringWriter_escape(c)
    IN  IF Len(pushed) > writer.limit
        THEN [out |-> SubSeq(pushed, 1, start) \o <<"\"", "\n", "\"">>
                          \o SubSeq(pushed, start + 1, Len(pushed)),
              limit |-> start + (3 + COLUMNS - 2)]
        ELSE [writer EXCEPT !.out = pushed]

\* StringWriter::write: the bytes of text in order, the first half of the
\* text before the second.  The test of first.out, which is never empty,
\* makes TLC compute the first half before it descends into the second.
RECURSIVE StringWriter_write(_, _)
StringWriter_write(writer, text) ==
    IF Len(text) = 0 THEN writer
    ELSE IF Len(text) = 1 THEN StringWriter_push(writer, text[1])
    ELSE LET first == StringWriter_write(
                          writer, SubSeq(text, 1, Len(text) \div 2))
         IN  IF Len(first.out) = 0 THEN first
             ELSE StringWriter_write(
                      first, SubSeq(text, Len(text) \div 2 + 1, Len(text)))

StringWriter_finish(writer) == writer.out \o <<"\"", "\n">>

\* The loop shared by FunctionNames and ExtensionNames in emit_data: the
\* names from index n on, a zero byte before every name but the first.
RECURSIVE write_names(_, _, _)
write_names(writer, names, n) ==
    IF n > Len(names) THEN writer
    ELSE write_names(
             StringWriter_write(
                 IF n # 1 THEN StringWriter_write(writer, <<NUL>>) ELSE writer,
                 names[n]),
             names, n + 1)

-----------------------------------------------------------------------------
(* Bindings *)

\* Mutant of Functions_emit: the index counts every function emitted so far.
RECURSIVE Functions_emit_position_loop(_, _, _, _)
Functions_emit_position_loop(st, fns, subset, i) ==
    IF i > Len(fns) THEN st
    ELSE
    LET function == fns[i]
        include == IF ~subset.some THEN TRUE
                   ELSE function.name \in subset.value
    IN  Functions_emit_position_loop(
            IF function.call = Linker
            THEN [st EXCEPT !.functions = Append(@, emit_linked(function))]
            ELSE IF include
            THEN [functions |-> Append(st.functions,
                                       emit_runtime(function, i - 1)),
                  lookups |-> Append(st.lookups, function.name)]
            ELSE [st EXCEPT !.functions = Append(@, emit_missing(function))],
            fns, subset, i + 1)

\* Mutant of Functions_emit: the subset is not consulted.
RECURSIVE Functions_emit_all_loop(_, _, _, _)
Functions_emit_all_loop(st, fns, subset, i) ==
    IF i > Len(fns) THEN st
    ELSE
    LET function == fns[i]
    IN  Functions_emit_all_loop(
            IF function.call = Linker
            THEN [st EXCEPT !.functions = Append(@, emit_linked(function))]
            ELSE [functions |-> Append(st.functions,
                                       emit_runtime(function, Len(st.lookups))),
                  lookups |-> Append(st.lookups, function.name)],
            fns, subset, i + 1)

\* Functions::emit, the loop over api.functions from index i on;
\* st = [functions, lookups], subset an Option of a set of names.
RECURSIVE Functions_emit_loop(_, _, _, _)
Functions_emit_loop(st, fns, subset, i) ==
    IF i > Len(fns) THEN st
    ELSE
    LET function == fns[i]
        include == IF ~subset.some THEN TRUE
                   ELSE function.name \in subset.value
    IN  Functions_emit_loop(
            IF function.call = Linker
            THEN [st EXCEPT !.functions = Append(@, emit_linked(function))]
            ELSE IF include
            THEN [functions |-> Append(st.functions,
                                       emit_runtime(function, Len(st.lookups))),
                  lookups |-> Append(st.lookups, function.name)]
            ELSE [st EXCEPT !.functions = Append(@, emit_missing(function))],
            fns, subset, i + 1)

Functions_emit_position(fns, subset) ==
    Functions_emit_position_loop([functions |-> <<>>, lookups |-> <<>>],
                                 fns, subset, 1)

Functions_emit_all(fns, subset) ==
    Functions_emit_all_loop([functions |-> <<>>, lookups |-> <<>>],
                            fns, subset, 1)

Functions_emit(fns, subset) ==
    Functions_emit_loop([functions |-> <<>>, lookups |-> <<>>], fns, subset, 1)

starts_with(text, prefix) ==
    Len(text) >= Len(prefix) /\ SubSeq(text, 1, Len(prefix)) = prefix

s_GL_ == <<"G", "L", "_">>

RECURSIVE SumLen(_)
SumLen(names) ==
    IF Len(names) = 0 THEN 0 ELSE Len(Head(names)) + SumLen(Tail(names))

\* Mutant of emit_header: the markers count from one.
emit_header_from_one(enum_text, fns, exts) ==
    IF \E n \in 1..Len(exts) : ~starts_with(exts[n], s_GL_)
    THEN Err(<<"panic", "assert", "starts_with">>)
    ELSE Ok([FunctionPointerCount |-> Len(fns.lookups),
             ExtensionCount |-> Len(exts),
             extensions |->
                 [n \in 1..Len(exts) |->
                     [name |-> exts[n],
                      short_name |-> SubSeq(exts[n], 4, Len(exts[n])),
                      index |-> n]],
             enums |-> enum_text,
             functions |-> fns.functions])

\* emit_header: the values written into the header text.  Panics when an
\* extension name does not start with "GL_".
emit_header(enum_text, fns, exts) ==
    IF \E n \in 1..Len(exts) : ~starts_with(exts[n], s_GL_)
    THEN Err(<<"panic", "assert", "starts_with">>)
    ELSE Ok([FunctionPointerCount |-> Len(fns.lookups),
             ExtensionCount |-> Len(exts),
             extensions |->
                 [n \in 1..Len(exts) |->
                     [name |-> exts[n],
                      short_name |-> SubSeq(exts[n], 4, Len(exts[n])),
                      index |-> n - 1]],
             enums |-> enum_text,
             functions |-> fns.functions])

\* emit_data: the array sizes and the two string literals.
emit_data(fns, exts) ==
    [FunctionPointers |-> Len(fns.lookups),
     FunctionNamesSize |-> SumLen(fns.lookups) + Len(fns.lookups),
     FunctionNames |->
         StringWriter_finish(write_names(StringWriter_new, fns.lookups, 1)),
     extensions |->
         IF Len(exts) = 0 THEN Nothing
         ELSE Some([ExtensionAvailable |-> Len(exts),
                    ExtensionNamesSize |-> SumLen(exts) + Len(exts),
                    ExtensionNames |->
                        StringWriter_finish(
                            write_names(StringWriter_new, exts, 1))])]

\* API::make_bindings_impl on API {enums, functions, extensions}.
make_bindings_impl(api_enums, api_functions, api_extensions, subset) ==
    LET fns == Functions_emit(api_functions, subset)
        header == emit_header(api_enums, fns, api_extensions)
    IN  IF ~header.ok THEN header
        ELSE Ok([header |-> header.value,
                 data |-> emit_data(fns, api_extensions)])

make_bindings(api_enums, api_functions, api_extensions) ==
    make_bindings_impl(api_enums, api_functions, api_extensions, Nothing)

make_subset_bindings(api_enums, api_functions, api_extensions, subset) ==
    make_bindings_impl(api_enums, api_functions, api_extensions, Some(subset))

-----------------------------------------------------------------------------
(* APISpec::from_str, and GLAPI::evaluate (tools/src/project/generator.rs) *)

\* str::split_ascii_whitespace: the maximal pieces without ASCII
\* whitespace, in order; no piece is empty.
RECURSIVE split_ascii_whitespace(_)
split_ascii_whitespace(s) ==
    IF Len(s) = 0 THEN <<>>
    ELSE IF s[1] \in AsciiWhitespace THEN split_ascii_whitespace(Tail(s))
    ELSE LET stops == {i \in 1..Len(s) : s[i] \in AsciiWhitespace}
             end == IF stops = {} THEN Len(s) + 1 ELSE Min(stops)
         IN  <<SubSeq(s, 1, end - 1)>>
             \o split_ascii_whitespace(SubSeq(s, end, Len(s)))

\* Mutant of APISpec_extensions: an extension already listed is not pushed.
RECURSIVE APISpec_extensions_dedup(_, _)
APISpec_extensions_dedup(extensions_, parts) ==
    IF Len(parts) = 0 THEN extensions_
    ELSE APISpec_extensions_dedup(
             IF Head(parts) \in Range(extensions_) THEN extensions_
             ELSE Append(extensions_, Head(parts)),
             Tail(parts))

\* for part in parts { extensions.push(part.into()) }
RECURSIVE APISpec_extensions(_, _)
APISpec_extensions(extensions_, parts) ==
    IF Len(parts) = 0 THEN extensions_
    ELSE APISpec_extensions(Append(extensions_, Head(parts)), Tail(parts))

\* <APISpec as FromStr>::from_str
APISpec_from_str(s) ==
    LET parts == split_ascii_whitespace(s)
    IN  IF Len(parts) = 0 THEN Err("Empty")
        ELSE LET version == Version_parse(Head(parts))
             IN  IF ~version.some THEN Err("InvalidVersion")
                 ELSE Ok([version |-> version.value,
                          extensions |->
                              APISpec_extensions(<<>>, Tail(parts))])

\* params.property(name).parse()?.required()?: value is the text of the
\* property, or None when the property is not given.
Property_parse_required(name, value) ==
    IF value = None THEN Err(<<"MissingProperty", name>>)
    ELSE LET r == APISpec_from_str(value)
         IN  IF r.ok THEN r
             ELSE Err(<<"PropertyValue", name, r.error>>)

-----------------------------------------------------------------------------
(* Registry documents the model runs on *)

ws == Text(<<" ">>)

Command(name) == Element("command", [name |-> name], <<>>)
EnumRef(name) == Element("enum", [name |-> name], <<>>)
Require(children) == Element("require", NoAttrs, children)
Remove(profile, children) ==
    Element("remove", [profile |-> profile], children)
Feature(api_attr, number, children) ==
    Element("feature", [api |-> api_attr, number |-> number], children)
Extension(name, children) == Element("extension", [name |-> name], children)
Extensions(items) == Element("extensions", NoAttrs, items)
Registry(children) == Element("registry", NoAttrs, children)

SeqsUpTo(S, n) == UNION {[1..k -> S] : k \in 0..n}

CommandNames == {glA, glB}
EnumNames == {GL_X}
FeatureNumbers == {v_1_0, v_1_1, v_2_0}
Versions == {Version(1, 0), Version(1, 1), Version(2, 0)}
LinkVersions == {Version(1, 0), Version(1, 1)}

ResolveDirectives ==
    {Require(<<ws, Command(glA)>>), Require(<<EnumRef(GL_X)>>),
     Remove(s_core, <<ws, Command(glA)>>), Remove(s_core, <<EnumRef(GL_X)>>)}

ResolveTop ==
    {Feature(s_gl, number, <<ws, d>>) :
        number \in FeatureNumbers, d \in ResolveDirectives}
    \cup
    {Feature(s_gl, v_1_0, <<Require(<<Command(glA), EnumRef(GL_X)>>)>>),
     Feature(s_gl, v_1_1,
             <<Require(<<Command(glB), Element("type", NoAttrs, <<>>)>>)>>),
     Feature(s_gles2, v_1_0, <<Require(<<Command(glA), EnumRef(GL_X)>>)>>),
     Feature(s_gl, v_bad, <<Require(<<Command(glA)>>)>>),
     Feature(s_gl, v_1_1, <<Remove(s_compat, <<Command(glA)>>)>>),
     Feature(s_gles2, v_1_0, <<Remove(s_compat, <<Command(glA)>>)>>),
     Feature(s_gl, v_1_0, <<Element("unused", NoAttrs, <<>>)>>),
     Extensions(<<ws,
                  Extension(GL_E, <<Require(<<Command(glA), EnumRef(GL_X)>>)>>),
                  Extension(GL_F, <<Require(<<Command(glB)>>)>>)>>)}

v_1 == <<"1">>
v_2 == <<"2">>

Other(name) == IF name = GL_X THEN GL_Y ELSE GL_X

EnumItems ==
    {Element("enum",
             [name |-> n, value |-> v] @@ t
                 @@ (IF a THEN [alias |-> Other(n)] ELSE NoAttrs),
             <<>>) :
        n \in {GL_X, GL_Y}, v \in {v_1, v_2},
        t \in {NoAttrs, [type |-> s_u]}, a \in BOOLEAN}
    \cup
    {Element("enum", [name |-> GL_X, value |-> v_2, api |-> s_gles2], <<>>),
     Element("enum", [name |-> GL_Y, value |-> v_1, api |-> s_gl], <<>>),
     Element("enum", [name |-> GL_X, value |-> v_1, type |-> s_bitmask],
             <<>>),
     Element("enum", [name |-> GL_Y], <<>>),
     Element("unused", NoAttrs, <<>>),
     Element("command", NoAttrs, <<>>)}

EnumsBlocks ==
    {Element("enums", t, items) :
        t \in {NoAttrs, [type |-> s_bitmask], [type |-> s_u]},
        items \in SeqsUpTo(EnumItems, MaxEnums)}

\* One <enums> block of up to MaxEnums items.
EnumsRegistries ==
    {Registry(<<Feature(s_gl, v_1_0, <<Require(req)>>), ws, block>>) :
        req \in {<<EnumRef(GL_X), EnumRef(GL_Y)>>, <<EnumRef(GL_Y)>>},
        block \in EnumsBlocks}

\* Two <enums> blocks of one item each.
EnumsRegistryPairs ==
    {Registry(<<Feature(s_gl, v_1_0, <<Require(req)>>),
                Element("enums", NoAttrs, <<x>>),
                Element("enums", [type |-> s_bitmask], <<y>>)>>) :
        req \in {<<EnumRef(GL_X), EnumRef(GL_Y)>>, <<EnumRef(GL_Y)>>},
        x \in EnumItems, y \in EnumItems}

NoFile == <<"<none>">>
NoSpec == Nothing
NoBindings == Nothing
NoConfig == Nothing
NoFiles == [header |-> "absent", data |-> "absent"]

\* The APISpec values are given; no generator properties.
NoProperties == <<"<none>">>

InitRest ==
    /\ input = None
    /\ returned = None
    /\ config = NoConfig
    /\ properties = NoProperties
    /\ pc = "parse"
    /\ spec = NoSpec
    /\ features = EmptyFeatureSet
    /\ enums = <<>>
    /\ functions = <<>>
    /\ extensions = <<>>
    /\ bindings = NoBindings
    /\ files = NoFiles
    /\ error = <<>>

InitResolve ==
    /\ registry \in {Registry(c) : c \in SeqsUpTo(ResolveTop, MaxTop)}
    /\ api \in [version : Versions, extensions : {<<>>, <<GL_E>>}]
    /\ link \in [version : LinkVersions, extensions : {<<>>, <<GL_E>>}]
    /\ entry_points = NoFile
    /\ InitRest

-----------------------------------------------------------------------------
(* API::parse, one action per call it makes *)

Fail(e) == pc' = "failed" /\ error' = e

\* API::parse up to and including FeatureSpec::from_specs.
FromSpecs ==
    /\ pc = "parse"
    /\ IF registry.tag # "registry"
       THEN Fail(unexpected_tag(registry, "")) /\ UNCHANGED spec
       ELSE LET r == FeatureSpec_from_specs(api, link, registry)
            IN  IF r.ok
                THEN spec' = r.value /\ pc' = "spec" /\ UNCHANGED error
                ELSE Fail(r.error) /\ UNCHANGED spec
    /\ UNCHANGED <<input, returned, config, properties, registry, api, link, entry_points, features, enums,
                   functions, extensions, bindings, files>>

\* FeatureSet::build(node, &spec)?
Build ==
    /\ pc = "spec"
    /\ LET r == FeatureSet_build(registry, spec)
       IN  IF r.ok
           THEN features' = r.value /\ pc' = "features" /\ UNCHANGED error
           ELSE Fail(r.error) /\ UNCHANGED features
    /\ UNCHANGED <<input, returned, config, properties, registry, api, link, entry_points, spec, enums,
                   functions, extensions, bindings, files>>

\* emit_enums(&features.enums, node, &type_map)?
EmitEnums ==
    /\ pc = "features"
    /\ LET r == emit_enums(features.enums, registry)
       IN  IF r.ok
           THEN enums' = r.value /\ pc' = "enums" /\ UNCHANGED error
           ELSE IF r.error[1] = "panic"
           THEN pc' = "panicked" /\ error' = r.error /\ UNCHANGED enums
           ELSE Fail(r.error) /\ UNCHANGED enums
    /\ UNCHANGED <<input, returned, config, properties, registry, api, link, entry_points, spec, features,
                   functions, extensions, bindings, files>>

-----------------------------------------------------------------------------
(* API::parse after emit_enums, and Args::run (tools/src/command/glemit.rs) *)

\* The characters of names in byte order, for Vec<String>::sort.
ByteOrder ==
    <<".", "/", "0", "1", "2", "3", "4", "5", "6", "7", "8", "9",
      "A", "B", "C", "D", "E", "F", "G", "H", "I", "J", "K", "L", "M",
      "N", "O", "P", "Q", "R", "S", "T", "U", "V", "W", "X", "Y", "Z", "_",
      "a", "b", "c", "d", "e", "f", "g", "h", "i", "j", "k", "l", "m",
      "n", "o", "p", "q", "r", "s", "t", "u", "v", "w", "x", "y", "z">>

Byte(c) == CHOOSE i \in 1..Len(ByteOrder) : ByteOrder[i] = c

\* Ord for str: lexicographic on bytes.
RECURSIVE str_le(_, _)
str_le(a, b) ==
    IF Len(a) = 0 THEN TRUE
    ELSE IF Len(b) = 0 THEN FALSE
    ELSE IF Head(a) = Head(b) THEN str_le(Tail(a), Tail(b))
    ELSE Byte(Head(a)) < Byte(Head(b))

\* The orders in which HashMap::keys can yield the keys S.
keys(S) == {order \in [1..Cardinality(S) -> S] : Range(order) = S}

\* v with name put in front of the first element that is not below it.
RECURSIVE sort_insert(_, _)
sort_insert(v, name) ==
    IF Len(v) = 0 THEN <<name>>
    ELSE IF str_le(name, Head(v)) THEN <<name>> \o v
    ELSE <<Head(v)>> \o sort_insert(Tail(v), name)

\* Mutant of sort: the names stay in the order they came in.
sort_unsorted(v) == v

\* Vec<String>::sort
RECURSIVE sort(_)
sort(v) ==
    IF Len(v) = 0 THEN <<>>
    ELSE sort_insert(sort(SubSeq(v, 1, Len(v) - 1)), v[Len(v)])

\* The names of the set S in ascending order.
RECURSIVE sorted(_)
sorted(S) ==
    IF S = {} THEN <<>>
    ELSE LET least == CHOOSE a \in S : \A b \in S : str_le(a, b)
         IN  <<least>> \o sorted(S \ {least})

\* str::lines: the pieces ended by "\n", without the "\n" and without a
\* "\r" before it; a last piece without "\n" is a line as it is.
RECURSIVE lines(_)
lines(text) ==
    IF Len(text) = 0 THEN <<>>
    ELSE IF \E i \in 1..Len(text) : text[i] = "\n"
    THEN LET i == Min({k \in 1..Len(text) : text[k] = "\n"})
             line == SubSeq(text, 1, i - 1)
         IN  <<IF Len(line) # 0 /\ line[Len(line)] = "\r"
               THEN SubSeq(line, 1, Len(line) - 1)
               ELSE line>>
             \o lines(SubSeq(text, i + 1, Len(text)))
    ELSE <<text>>

\* Function::parse_all(&features.commands, node, &type_map)?, then the
\* extension names, collected in the order of the hash map and sorted, and
\* Ok(API {..}).
ParseAll ==
    /\ pc = "enums"
    /\ LET r == Function_parse_all(features.commands, registry)
       IN  IF r.ok
           THEN /\ functions' = r.value
                /\ \E order \in keys(DOMAIN spec.extensions) :
                       extensions' = sort(order)
                /\ pc' = "api"
                /\ UNCHANGED error
           ELSE Fail(r.error) /\ UNCHANGED <<functions, extensions>>
    /\ UNCHANGED <<input, returned, config, properties, registry, api, link, entry_points, spec, features, enums,
                   bindings, files>>

\* The result of make_bindings / make_subset_bindings arrives in bindings.
Bind(r) ==
    IF r.ok
    THEN bindings' = Some(r.value) /\ pc' = "bindings" /\ UNCHANGED error
    ELSE pc' = "panicked" /\ error' = r.error /\ UNCHANGED bindings

\* None => api.make_bindings()
MakeBindings ==
    /\ pc = "api"
    /\ entry_points = NoFile
    /\ Bind(make_bindings(enums, functions, extensions))
    /\ UNCHANGED <<input, returned, config, properties, registry, api, link, entry_points, spec, features, enums,
                   functions, extensions, files>>

\* Some(path) => read the file, collect its lines into a HashSet,
\* api.make_subset_bindings(&entry_points)?.  fs::read_to_string can fail.
MakeSubsetBindings ==
    /\ pc = "api"
    /\ entry_points # NoFile
    /\ \E read \in BOOLEAN :
           IF read
           THEN Bind(make_subset_bindings(enums, functions, extensions,
                                          Range(lines(entry_points))))
           ELSE Fail(<<"Io", "read_to_string">>) /\ UNCHANGED bindings
    /\ UNCHANGED <<input, returned, config, properties, registry, api, link, entry_points, spec, features, enums,
                   functions, extensions, files>>

\* The outcomes of fs::write: the file written, the file not opened, or the
\* file created and the write cut short.
WriteOutcomes == {"written", "absent", "partial"}

\* emit::write_or_stdout(self.output_header.as_deref(), ..)?
WriteHeader ==
    /\ pc = "bindings"
    /\ \E outcome \in WriteOutcomes :
           /\ files' = [files EXCEPT !.header = outcome]
           /\ IF outcome = "written"
              THEN pc' = "header" /\ UNCHANGED error
              ELSE Fail(<<"Io", "write", "header">>)
    /\ UNCHANGED <<input, returned, config, properties, registry, api, link, entry_points, spec, features, enums,
                   functions, extensions, bindings>>

\* emit::write_or_stdout(self.output_data.as_deref(), ..)?; Ok(())
WriteData ==
    /\ pc = "header"
    /\ \E outcome \in WriteOutcomes :
           /\ files' = [files EXCEPT !.data = outcome]
           /\ IF outcome = "written"
              THEN pc' = "done" /\ UNCHANGED error
              ELSE Fail(<<"Io", "write", "data">>)
    /\ UNCHANGED <<input, returned, config, properties, registry, api, link, entry_points, spec, features, enums,
                   functions, extensions, bindings>>

NextResolve == FromSpecs \/ Build

SpecResolve == InitResolve /\ [][NextResolve]_vars

InitEnums ==
    /\ \/ registry \in EnumsRegistries
       \/ registry \in EnumsRegistryPairs
    /\ api = [version |-> Version(1, 0), extensions |-> <<>>]
    /\ link = [version |-> Version(1, 0), extensions |-> <<>>]
    /\ entry_points = NoFile
    /\ InitRest

NextEnums == FromSpecs \/ Build \/ EmitEnums

\* <extension> items: GL_E and GL_F, a second declaration of GL_E, and an
\* <extension> without a name.
ExtensionItems ==
    {Extension(GL_E, <<Require(<<Command(glA), EnumRef(GL_X)>>)>>),
     Extension(GL_F, <<ws, Require(<<Command(glB)>>)>>),
     Extension(GL_E, <<Require(<<Command(glB)>>)>>),
     Element("extension", NoAttrs, <<>>)}

\* A <feature> 1.1, above the link version 1.0, before or behind one
\* <extensions> block; or no <extensions> block.
ExtensionFeature ==
    Feature(s_gl, v_1_1, <<Require(<<Command(glA), Command(glB)>>)>>)

ExtensionRegistries ==
    {Registry(top[1] \o <<Extensions(items)>> \o top[2]) :
        top \in {<<<<>>, <<>>>>, <<<<ExtensionFeature>>, <<>>>>,
                 <<<<>>, <<ExtensionFeature>>>>},
        items \in SeqsUpTo(ExtensionItems, MaxExtensions)}
    \cup {Registry(<<ExtensionFeature>>)}

\* The extension names of an APISpec: declared ones and GL_N, which no
\* registry declares.
RequestNames == {GL_E, GL_F, GL_N}

InitExtensions ==
    /\ registry \in ExtensionRegistries
    /\ api \in [version : {Version(1, 1)},
                extensions : SeqsUpTo(RequestNames, MaxRequest)]
    /\ link \in [version : {Version(1, 0)},
                 extensions : SeqsUpTo(RequestNames, MaxRequest - 1)]
    /\ entry_points = NoFile
    /\ InitRest

SpecExtensions == InitExtensions /\ [][NextResolve]_vars

SpecEnums == InitEnums /\ [][NextEnums]_vars

\* <command> with its <proto> (return type, then <name>) and its <param>s.
CommandDef(return_type, name, params) ==
    Element("command", NoAttrs,
            <<Element("proto", NoAttrs,
                      return_type \o <<Element("name", NoAttrs, <<Text(name)>>)>>)>>
            \o params)

Param(name) ==
    Element("param", NoAttrs,
            <<Element("ptype", NoAttrs, <<Text(s_GLint)>>), ws,
              Element("name", NoAttrs, <<Text(name)>>)>>)

ReturnsVoid == <<Text(s_void \o <<" ">>)>>
ReturnsGLint == <<Element("ptype", NoAttrs, <<Text(s_GLint)>>), ws>>

CommandItems ==
    {CommandDef(ReturnsVoid, glA, <<>>),
     CommandDef(ReturnsVoid, glB, <<ws, Param(<<"x">>)>>),
     CommandDef(ReturnsGLint, glB, <<>>),
     CommandDef(ReturnsVoid, glC, <<Param(<<"x">>), Param(<<"y">>)>>),
     CommandDef(ReturnsVoid, glZ, <<>>),
     CommandDef(<<ws>>, glC, <<>>),
     Element("command", NoAttrs, <<>>),
     Element("unused", NoAttrs, <<>>)}

\* <feature> 1.0 is within the link version of glemit, 2.0 above it, 4.0
\* above its api version.
RunRegistries ==
    {Registry(<<Feature(s_gl, v_1_0,
                        <<Require(<<Command(glA), EnumRef(GL_X)>>)>>),
                Feature(s_gl, v_2_0,
                        <<Require(<<Command(glB), Command(glC)>>)>>),
                Feature(s_gl, v_4_0, <<Require(<<Command(glZ)>>)>>),
                Element("enums", NoAttrs,
                        <<Element("enum", [name |-> GL_X, value |-> v_1],
                                  <<>>)>>),
                ws,
                Element("commands", NoAttrs, items)>>) :
        items \in SeqsUpTo(CommandItems, MaxCommands)}

\* Contents of the --entry-points file.
EntryPointFiles ==
    {<<>>,
     glB \o <<"\n">>,
     glB \o <<"\n">> \o glC \o <<"\n">>,
     glC \o <<"\r", "\n">> \o glB,
     glA \o <<"\n">> \o glB \o <<"\n">>,
     glB \o <<"\n">> \o glZ \o <<"\n">>,
     glZ \o <<"\n">> \o glY \o <<"\n">>,
     glB \o <<"\n">> \o glB \o <<"\n">>}

\* Args::run: the two APISpec values it builds, and the arguments.  Both
\* output paths are given.
Init ==
    /\ registry \in RunRegistries
    /\ api = [version |-> Version(3, 3), extensions |-> <<>>]
    /\ link = [version |-> Version(1, 1), extensions |-> <<>>]
    /\ entry_points \in {NoFile} \cup EntryPointFiles
    /\ InitRest

Next ==
    \/ FromSpecs
    \/ Build
    \/ EmitEnums
    \/ ParseAll
    \/ MakeBindings
    \/ MakeSubsetBindings
    \/ WriteHeader
    \/ WriteData

Spec == Init /\ [][Next]_vars

\* u8::to_ascii_lowercase of a letter; every other byte is kept.
to_ascii_lowercase(c) ==
    LET upper == <<"A", "B", "C", "D", "E", "F", "G", "H", "I", "J", "K",
                   "L", "M", "N", "O", "P", "Q", "R", "S", "T", "U", "V",
                   "W", "X", "Y", "Z">>
        lower == <<"a", "b", "c", "d", "e", "f", "g", "h", "i", "j", "k",
                   "l", "m", "n", "o", "p", "q", "r", "s", "t", "u", "v",
                   "w", "x", "y", "z">>
    IN  IF \E i \in 1..Len(upper) : upper[i] = c
        THEN lower[CHOOSE i \in 1..Len(upper) : upper[i] = c]
        ELSE c

\* str::eq_ignore_ascii_case
eq_ignore_ascii_case(a, b) ==
    /\ Len(a) = Len(b)
    /\ \A i \in 1..Len(a) : to_ascii_lowercase(a[i]) = to_ascii_lowercase(b[i])

s_compo == <<"c", "o", "m", "p", "o">>
s_full == <<"f", "u", "l", "l">>
s_linux == <<"l", "i", "n", "u", "x">>
s_macos == <<"m", "a", "c", "o", "s">>
s_windows == <<"w", "i", "n", "d", "o", "w", "s">>
s_unix == <<"u", "n", "i", "x">>

\* <Variant as FromStr>::from_str
Variant_from_str(s) ==
    IF eq_ignore_ascii_case(s, s_compo) THEN Ok("Compo")
    ELSE IF eq_ignore_ascii_case(s, s_full) THEN Ok("Full")
    ELSE Err("UnknownVariant")

\* <Platform as FromStr>::from_str
Platform_from_str(s) ==
    IF eq_ignore_ascii_case(s, s_linux) THEN Ok("Linux")
    ELSE IF eq_ignore_ascii_case(s, s_macos) THEN Ok("MacOS")
    ELSE IF eq_ignore_ascii_case(s, s_windows) THEN Ok("Windows")
    ELSE Err("UnknownPlatform")

\* <Config as FromStr>::from_str
Config_from_str(s) ==
    LET parts == split_once(s, ":")
    IN  IF ~parts.some THEN Err("InvalidSyntax")
        ELSE LET platform == Platform_from_str(parts.value[1])
                 variant == Variant_from_str(parts.value[2])
             IN  IF ~platform.ok THEN platform
                 ELSE IF ~variant.ok THEN variant
                 ELSE Ok([platform |-> platform.value,
                          variant |-> variant.value])

\* Config::eval_tag
Config_eval_tag(self, tag) ==
    IF tag = s_compo THEN Some(self.variant = "Compo")
    ELSE IF tag = s_full THEN Some(self.variant = "Full")
    ELSE IF tag = s_windows THEN Some(self.platform = "Windows")
    ELSE IF tag = s_unix THEN Some(self.platform # "Windows")
    ELSE IF tag = s_macos THEN Some(self.platform = "MacOS")
    ELSE IF tag = s_linux THEN Some(self.platform = "Linux")
    ELSE Nothing

\* params.property("config").parse()?.value: value is the text of the
\* property, or None when the property is not given.
Property_parse_config(value) ==
    IF value = None THEN Ok(NoConfig)
    ELSE LET r == Config_from_str(value)
         IN  IF r.ok THEN Ok(Some(r.value))
             ELSE Err(<<"PropertyValue", "config", r.error>>)

\* GLAPI::evaluate: the "api" and the "link" property become the two
\* APISpec values, the "config" property the Option<Config>.  There is no
\* other property, and the outputs are well formed.
Evaluate ==
    /\ pc = "evaluate"
    /\ LET a == Property_parse_required("api", properties.api)
           l == Property_parse_required("link", properties.link)
           c == Property_parse_config(properties.config)
       IN  IF ~a.ok THEN Fail(a.error) /\ UNCHANGED <<api, link, config>>
           ELSE IF ~l.ok THEN Fail(l.error) /\ UNCHANGED <<api, link, config>>
           ELSE IF ~c.ok THEN Fail(c.error) /\ UNCHANGED <<api, link, config>>
           ELSE /\ api' = a.value
                /\ link' = l.value
                /\ config' = c.value
                /\ pc' = "parse"
                /\ UNCHANGED error
    /\ UNCHANGED <<input, returned, properties, registry, entry_points, spec, features, enums,
                   functions, extensions, bindings, files>>

RECURSIVE Concat(_)
Concat(pieces) ==
    IF Len(pieces) = 0 THEN <<>> ELSE Head(pieces) \o Concat(Tail(pieces))

\* Pieces of property texts: numbers, the dot, white space, and extension
\* names behind white space.
PropertyPieces ==
    {v_1_1, <<"2">>, <<".">>, <<"2", "5", "6">>, <<" ">>,
     <<" ">> \o GL_E, <<"\n", " ">> \o GL_F, <<"\t">> \o GL_N}

PropertyTexts == {Concat(pieces) : pieces \in SeqsUpTo(PropertyPieces, MaxPieces)}

LinkTexts == {v_1_0, v_1_0 \o <<" ">> \o GL_E, <<" ">>}

\* The <enums> and <commands> of the registries of the generator.
GeneratorDefinitions ==
    <<Element("enums", NoAttrs,
              <<Element("enum", [name |-> GL_X, value |-> v_1], <<>>)>>),
      Element("commands", NoAttrs,
              <<CommandDef(ReturnsVoid, glA, <<>>),
                CommandDef(ReturnsGLint, glB, <<Param(<<"x">>)>>)>>)>>

GeneratorRegistries ==
    {Registry(<<Feature(s_gl, v_1_0, <<Require(<<Command(glA)>>)>>),
                Extensions(<<Extension(GL_F, <<Require(<<Command(glB)>>)>>),
                             Extension(GL_E, <<Require(<<Command(glA),
                                                         EnumRef(GL_X)>>)>>)>>)>>
              \o GeneratorDefinitions),
     Registry(<<ExtensionFeature,
                Extensions(<<Extension(GL_E, <<Require(<<Command(glB)>>)>>)>>)>>
              \o GeneratorDefinitions)}

NoAPISpec == <<"<none>">>

-----------------------------------------------------------------------------
(* The directives of a registry, as the claims about resolution read them *)

\* The order of versions the claims speak of.
VersionKey(v) == 256 * v[1] + v[2]
Before(a, b) == VersionKey(a) < VersionKey(b)

\* The <command> and <enum> children of one <require> or <remove>.
ChildDirectives(d, src, top, version, ext) ==
    LET cs == SelectSeq(d.children,
                        LAMBDA c : c.tag \in {"command", "enum"}
                                   /\ "name" \in DOMAIN c.attrs)
    IN  [k \in 1..Len(cs) |->
            [src |-> src, top |-> top, version |-> version, ext |-> ext,
             kind |-> d.tag, type |-> cs[k].tag, name |-> cs[k].attrs.name]]

FeatureDirectives(f, top) ==
    IF attribute(f, "api") = s_gl /\ "number" \in DOMAIN f.attrs
       /\ Version_parse(attribute(f, "number")).some
    THEN LET ds == SelectSeq(f.children,
                             LAMBDA d : d.tag \in {"require", "remove"})
         IN  Flatten([k \in 1..Len(ds) |->
                         ChildDirectives(
                             ds[k], "feature", top,
                             Version_parse(attribute(f, "number")).value,
                             None)])
    ELSE <<>>

ExtensionDirectives(block, top) ==
    LET items == SelectSeq(block.children,
                           LAMBDA x : x.tag = "extension"
                                      /\ "name" \in DOMAIN x.attrs)
    IN  Flatten([k \in 1..Len(items) |->
            LET ds == SelectSeq(items[k].children,
                                LAMBDA d : d.tag = "require")
            IN  Flatten([m \in 1..Len(ds) |->
                            ChildDirectives(ds[m], "extension", top,
                                            Version(0, 0),
                                            items[k].attrs.name)])])

\* Every directive of the gl features and of the extensions, in document
\* order.
Directives(reg) ==
    Flatten([i \in 1..Len(reg.children) |->
        IF reg.children[i].tag = "feature"
        THEN FeatureDirectives(reg.children[i], i)
        ELSE IF reg.children[i].tag = "extensions"
        THEN ExtensionDirectives(reg.children[i], i)
        ELSE <<>>])

\* A directive applies when its feature is at or below the requested
\* version, or its extension is requested.
Applicable(d, fs) ==
    IF d.src = "feature"
    THEN ~Before(fs.max_version, d.version)
    ELSE d.ext \in DOMAIN fs.extensions

CallTypeOf(d, fs) ==
    IF d.src = "feature"
    THEN IF Before(fs.linkable_version, d.version) THEN Runtime ELSE Linker
    ELSE fs.extensions[d.ext]

Max(S) == CHOOSE i \in S : \A j \in S : j <= i

\* The positions, in the directive list D, of the directives of gl features
\* and of requested extensions that name `name`.
Naming(D, fs, type, name) ==
    {i \in 1..Len(D) :
        /\ D[i].type = type
        /\ D[i].name = name
        /\ (D[i].src = "feature" \/ D[i].ext \in DOMAIN fs.extensions)}

\* c is required by gl feature N and removed by a later gl feature M > N,
\* and nothing else names it: D[i] is the require, D[j] the remove.
RequiredThenRemoved(D, fs, c, i, j) ==
    /\ Naming(D, fs, "command", c) = {i, j}
    /\ i < j
    /\ D[i].src = "feature" /\ D[i].kind = "require"
    /\ D[j].src = "feature" /\ D[j].kind = "remove"
    /\ D[i].top < D[j].top
    /\ Before(D[i].version, D[j].version)

\* C1: Remove correctness.  When a command is required by gl feature N and
\* removed by a later gl feature M > N, the commands map built by
\* FeatureSet::build does not contain it if max_version >= M, and contains
\* it if N <= max_version < M.
C1_RemoveCorrectness ==
    pc = "features" =>
        LET D == Directives(registry)
        IN  \A c \in CommandNames :
                \A i, j \in Naming(D, spec, "command", c) :
                    RequiredThenRemoved(D, spec, c, i, j) =>
                        /\ ~Before(spec.max_version, D[j].version)
                           => c \notin DOMAIN features.commands
                        /\ (~Before(spec.max_version, D[i].version)
                            /\ Before(spec.max_version, D[j].version))
                           => c \in DOMAIN features.commands

\* A build that applied both the require and the later remove of a command.
C1_Witness ==
    /\ pc = "features"
    /\ LET D == Directives(registry)
       IN  \E i, j \in Naming(D, spec, "command", glA) :
               /\ RequiredThenRemoved(D, spec, glA, i, j)
               /\ ~Before(spec.max_version, D[j].version)
               /\ glA \notin DOMAIN features.commands

\* The applicable directives that name `name`, by position.
ApplicableNaming(D, fs, type, name) ==
    {i \in Naming(D, fs, type, name) : Applicable(D[i], fs)}

\* C2: Directives are applied in document order, never by version.  After
\* FeatureSet::build a command is in commands iff the last applicable
\* directive naming it, in document order, is a require, and then it has
\* the call type of that require; an enum is in enums iff the last
\* applicable directive naming it is a require.
C2_DocumentOrder ==
    pc = "features" =>
        LET D == Directives(registry)
        IN  /\ \A c \in CommandNames :
                   LET idx == ApplicableNaming(D, spec, "command", c)
                       last == D[Max(idx)]
                   IN  /\ c \in DOMAIN features.commands
                          <=> (idx # {} /\ last.kind = "require")
                       /\ c \in DOMAIN features.commands
                          => features.commands[c] = CallTypeOf(last, spec)
            /\ \A e \in EnumNames :
                   LET idx == ApplicableNaming(D, spec, "enum", e)
                       last == D[Max(idx)]
                   IN  e \in features.enums
                       <=> (idx # {} /\ last.kind = "require")
            /\ DOMAIN features.commands \subseteq CommandNames
            /\ features.enums \subseteq EnumNames

\* A command whose last applicable directive is a require that follows, in
\* the document, an applicable directive of a greater version or of an
\* extension.
C2_Witness ==
    /\ pc = "features"
    /\ glA \in DOMAIN features.commands
    /\ LET D == Directives(registry)
           idx == ApplicableNaming(D, spec, "command", glA)
       IN  \E i, j \in idx :
               /\ i < j
               /\ j = Max(idx)
               /\ D[j].src = "feature"
               /\ \/ D[i].src = "extension"
                  \/ Before(D[j].version, D[i].version)

\* The gl features of the registry whose version parses.
GlFeatures(reg) ==
    {i \in 1..Len(reg.children) :
        /\ reg.children[i].tag = "feature"
        /\ attribute(reg.children[i], "api") = s_gl
        /\ "number" \in DOMAIN reg.children[i].attrs
        /\ Version_parse(attribute(reg.children[i], "number")).some}

FeatureVersion(reg, i) ==
    Version_parse(attribute(reg.children[i], "number")).value

ExampleRegistry ==
    Registry(<<Feature(s_gl, v_1_0,
                       <<Require(<<Command(glA), EnumRef(GL_X)>>)>>),
               Feature(s_gl, v_1_1,
                       <<Require(<<Command(glB),
                                   Element("type", NoAttrs, <<>>)>>)>>)>>)

\* C3: A gl feature of version v > max_version changes neither enums nor
\* commands, also when v <= linkable_version; otherwise every command it
\* requires is Linker if v <= linkable_version and Runtime if not.  The
\* features 1.0 {glA, GL_X} and 1.1 {glB} with max 1.1 and linkable 1.0
\* give commands {glA: Linker, glB: Runtime} and enums {GL_X}.
C3_FeatureGating ==
    /\ pc \in {"spec", "features"} =>
           \A i \in GlFeatures(registry) :
               LET f == registry.children[i]
                   v == FeatureVersion(registry, i)
                   r == parse_feature(features, f, spec)
                   alone == parse_feature(EmptyFeatureSet, f, spec)
               IN  IF Before(spec.max_version, v)
                   THEN r = Ok(features)
                   ELSE /\ alone.ok =>
                               \A c \in DOMAIN alone.value.commands :
                                   alone.value.commands[c] =
                                       IF Before(spec.linkable_version, v)
                                       THEN Runtime ELSE Linker
                        /\ r.ok =>
                               \A c \in DOMAIN alone.value.commands :
                                   /\ c \in DOMAIN r.value.commands
                                   /\ r.value.commands[c] =
                                          alone.value.commands[c]
    /\ (/\ pc = "features"
        /\ registry = ExampleRegistry
        /\ spec.max_version = Version(1, 1)
        /\ spec.linkable_version = Version(1, 0)
        /\ DOMAIN spec.extensions = {})
       => /\ DOMAIN features.commands = {glA, glB}
          /\ features.commands[glA] = Linker
          /\ features.commands[glB] = Runtime
          /\ features.enums = {GL_X}

\* The example has been resolved, and some build skipped a feature above
\* max_version that is at or below linkable_version.
C3_Witness ==
    /\ pc = "features"
    /\ registry = ExampleRegistry
    /\ spec.max_version = Version(1, 1)
    /\ spec.linkable_version = Version(1, 0)
    /\ features.commands[glB] = Runtime

NoRemove(reg) ==
    \A i \in 1..Len(reg.children) :
        reg.children[i].tag = "feature" =>
            \A k \in 1..Len(reg.children[i].children) :
                reg.children[i].children[k].tag # "remove"

\* C4: Version monotonicity.  For a registry whose features hold no
\* <remove>, and the same extension request, the enums and the command
\* names resolved with max_version = v2 include those resolved with any
\* max_version v1 < v2.
C4_VersionMonotonicity ==
    (pc = "features" /\ NoRemove(registry)) =>
        \A v1 \in Versions :
            Before(v1, spec.max_version) =>
                LET low == FeatureSet_build(
                               registry, [spec EXCEPT !.max_version = v1])
                IN  low.ok =>
                        /\ low.value.enums \subseteq features.enums
                        /\ DOMAIN low.value.commands
                               \subseteq DOMAIN features.commands

\* A remove-free registry resolved at a version above one at which it
\* already yields a command, and that yields strictly more.
C4_Witness ==
    /\ pc = "features"
    /\ NoRemove(registry)
    /\ \E v1 \in Versions :
           /\ Before(v1, spec.max_version)
           /\ LET low == FeatureSet_build(
                             registry, [spec EXCEPT !.max_version = v1])
              IN  /\ low.ok
                  /\ DOMAIN low.value.commands # {}
                  /\ DOMAIN low.value.commands # DOMAIN features.commands

-----------------------------------------------------------------------------
(* The enums of a registry, as the claims about emit_enums read them *)

\* The type an <enum> is declared with: its own type attribute, or the
\* default of its <enums> block.
DeclaredType(block, item) ==
    IF attribute(item, "type") = s_u THEN s_unsigned
    ELSE IF attribute(item, "type") = s_ull THEN s_unsigned_long_long
    ELSE IF attribute(item, "type") # None THEN None
    ELSE IF attribute(block, "type") = s_bitmask
    THEN TypeMap_map(s_GLbitfield)
    ELSE TypeMap_map(s_GLenum)

\* The <enum> elements for the gl api whose name is selected, in document
\* order: name, declared type, literal value, alias.
SelectedEnums(reg, selected) ==
    LET blocks == element_children_tag(reg, "enums")
    IN  Flatten([b \in 1..Len(blocks) |->
            LET its == SelectSeq(
                           blocks[b].children,
                           LAMBDA x : /\ x.tag = "enum"
                                      /\ attribute(x, "api") \in {None, s_gl}
                                      /\ attribute(x, "name") \in selected)
            IN  [k \in 1..Len(its) |->
                    [name |-> attribute(its[k], "name"),
                     ty |-> DeclaredType(blocks[b], its[k]),
                     value |-> attribute(its[k], "value"),
                     alias |-> attribute(its[k], "alias")]]])

\* E[k] is declared as an alias of the earlier E[t].
AliasOfEarlier(E, k, t) == t < k /\ E[k].alias = E[t].name

SameDefinition(E, k, t) == E[k].ty = E[t].ty /\ E[k].value = E[t].value

\* C9: Alias resolution.  When a selected enum B carries alias=A and A was
\* emitted earlier with the same (type, value), emit_enums raises no alias
\* conflict and B is declared with the name A as its value; when A was not
\* emitted earlier (not selected, or defined later), B is declared with its
\* own literal.
C9_AliasResolution ==
    LET E == SelectedEnums(registry, features.enums)
    IN  /\ pc = "enums" =>
               /\ Len(enums) = Len(E)
               /\ \A k \in 1..Len(E) :
                      /\ enums[k].name = E[k].name
                      /\ enums[k].ty = E[k].ty
                      /\ (\E t \in 1..Len(E) :
                              AliasOfEarlier(E, k, t) /\ SameDefinition(E, k, t))
                         => enums[k].value = E[k].alias
                      /\ (~\E t \in 1..Len(E) : AliasOfEarlier(E, k, t))
                         => enums[k].value = E[k].value
        /\ (error # <<>> /\ error[1] = "AliasConflict") =>
               \E k, t \in 1..Len(E) :
                   /\ E[k].name = error[2]
                   /\ AliasOfEarlier(E, k, t)
                   /\ ~SameDefinition(E, k, t)

\* Both cases have been emitted: an enum declared with the name of its
\* earlier, identical alias target, and one declared with its own literal
\* because its alias target comes later.
C9_Witness ==
    /\ pc = "enums"
    /\ LET E == SelectedEnums(registry, features.enums)
       IN  /\ Len(enums) = 2
           /\ E[2].alias = E[1].name
           /\ enums[2].value = E[1].name
           /\ enums[2].value # E[2].value

\* C10 as stated: two selected enums, one declared as alias of the other,
\* whose values or types differ, make emit_enums fail with AliasConflict;
\* emit_enums never returns the declarations of such a pair.
C10_AliasConflict_AnyOrder ==
    pc = "enums" =>
        LET E == SelectedEnums(registry, features.enums)
        IN  \A k, t \in 1..Len(E) :
                (k # t /\ E[k].alias = E[t].name) => SameDefinition(E, k, t)

\* C10, amended: two selected enums, B declared as alias of A, where A is
\* emitted before B and their values or types differ, make emit_enums fail;
\* the AliasConflict it reports names such a pair, and no enum is declared
\* after an alias target with a different (type, value).
C10_AliasConflict ==
    LET E == SelectedEnums(registry, features.enums)
    IN  /\ pc = "enums" =>
               \A k, t \in 1..Len(E) :
                   AliasOfEarlier(E, k, t) => SameDefinition(E, k, t)
        /\ (error # <<>> /\ error[1] = "AliasConflict") =>
               /\ pc = "failed"
               /\ enums = <<>>
               /\ \E k, t \in 1..Len(E) :
                      /\ error = <<"AliasConflict", E[k].name, E[t].name>>
                      /\ AliasOfEarlier(E, k, t)
                      /\ ~SameDefinition(E, k, t)
                      /\ \A j, u \in 1..(k - 1) :
                             AliasOfEarlier(E, j, u) => SameDefinition(E, j, u)

\* emit_enums has failed with AliasConflict(GL_Y, GL_X).
C10_Witness ==
    /\ pc = "failed"
    /\ error = <<"AliasConflict", GL_Y, GL_X>>

-----------------------------------------------------------------------------
(* The generated files, as the claims about the bindings read them *)

HexDigits == Digits \cup {"a", "b", "c", "d", "e", "f",
                          "A", "B", "C", "D", "E", "F"}

\* A C compiler reading adjacent string literals, one character at a time:
\* outside the quotes, inside them, behind a backslash, or in the digits of
\* a \x escape, which takes every hexadecimal digit that follows it.
CStringStart == [mode |-> "outside", digits |-> <<>>, bytes |-> <<>>]

CStringInside(st, c) ==
    IF c = "\"" THEN [st EXCEPT !.mode = "outside"]
    ELSE IF c = "\\" THEN [st EXCEPT !.mode = "escape"]
    ELSE [st EXCEPT !.mode = "inside", !.bytes = Append(@, c)]

\* The value of a sequence of hexadecimal digits.
RECURSIVE HexValue(_)
HexValue(digits) ==
    IF Len(digits) = 0 THEN 0
    ELSE LET d == digits[Len(digits)]
             lower == <<"0", "1", "2", "3", "4", "5", "6", "7", "8", "9",
                        "a", "b", "c", "d", "e", "f">>
             upper == <<"0", "1", "2", "3", "4", "5", "6", "7", "8", "9",
                        "A", "B", "C", "D", "E", "F">>
             v == IF \E k \in 1..16 : lower[k] = d
                  THEN (CHOOSE k \in 1..16 : lower[k] = d) - 1
                  ELSE (CHOOSE k \in 1..16 : upper[k] = d) - 1
         IN  16 * HexValue(SubSeq(digits, 1, Len(digits) - 1)) + v

\* The byte of a \x escape: the value of all its digits; "?" for a value
\* that is no byte.
CStringHexByte(st) ==
    LET significant ==
            IF \E k \in 1..Len(st.digits) : st.digits[k] # "0"
            THEN SubSeq(st.digits,
                        CHOOSE k \in 1..Len(st.digits) :
                            /\ st.digits[k] # "0"
                            /\ \A j \in 1..(k - 1) : st.digits[j] = "0",
                        Len(st.digits))
            ELSE <<>>
    IN  IF Len(significant) > 2 THEN "?"
        ELSE ByteTable[HexValue(significant) + 1]

CStringStep(st, c) ==
    IF st.mode = "outside"
    THEN IF c = "\"" THEN [st EXCEPT !.mode = "inside"] ELSE st
    ELSE IF st.mode = "inside" THEN CStringInside(st, c)
    ELSE IF st.mode = "escape"
    THEN IF c = "x" THEN [st EXCEPT !.mode = "hex", !.digits = <<>>]
         ELSE [st EXCEPT !.mode = "inside",
                         !.bytes = Append(@, CASE c = "t" -> "\t"
                                               [] c = "r" -> "\r"
                                               [] c = "n" -> "\n"
                                               [] OTHER -> c)]
    ELSE IF c \in HexDigits
    THEN [st EXCEPT !.digits = Append(@, c)]
    ELSE CStringInside([st EXCEPT !.bytes = Append(@, CStringHexByte(st))], c)

\* The characters of text in order, the first half before the second.
RECURSIVE CStringRead(_, _)
CStringRead(st, text) ==
    IF Len(text) = 0 THEN st
    ELSE IF Len(text) = 1 THEN CStringStep(st, text[1])
    ELSE LET first == CStringRead(st, SubSeq(text, 1, Len(text) \div 2))
         IN  IF first.mode = "" THEN first
             ELSE CStringRead(
                      first, SubSeq(text, Len(text) \div 2 + 1, Len(text)))

\* The bytes of the string literals of text.
CStringBytes(text) == CStringRead(CStringStart, text).bytes

\* The names of NUL-separated data, in order.
RECURSIVE SplitNul(_)
SplitNul(bytes) ==
    IF Len(bytes) = 0 THEN <<>>
    ELSE IF \E i \in 1..Len(bytes) : bytes[i] = NUL
    THEN LET i == Min({k \in 1..Len(bytes) : bytes[k] = NUL})
         IN  <<SubSeq(bytes, 1, i - 1)>>
             \o SplitNul(SubSeq(bytes, i + 1, Len(bytes)))
    ELSE <<bytes>>

\* The inline runtime wrappers of a header, in the order of the text.
Wrappers(header) ==
    SelectSeq(header.functions, LAMBDA f : f.kind = "runtime")

\* The set of requested names of a run with --entry-points.
Requested == Range(lines(entry_points))

\* The names of the <command> elements of the registry in document order.
RegistryCommands(reg) ==
    LET blocks == element_children_tag(reg, "commands")
        items == Flatten([b \in 1..Len(blocks) |->
                             element_children_tag(blocks[b], "command")])
    IN  [k \in 1..Len(items) |-> command_info(items[k]).value[1]]

\* C5: Index synchronization.  In the Bindings of make_bindings and of
\* make_subset_bindings, the index of every inline wrapper is the position
\* of the wrapper's name in the NUL-separated FunctionNames data; the
\* indices are 0..lookups.len()-1 without gap or repeat, in the document
\* order of the registry's commands.
C5_IndexSynchronization ==
    bindings.some =>
        LET W == Wrappers(bindings.value.header)
            N == SplitNul(CStringBytes(bindings.value.data.FunctionNames))
        IN  /\ Len(N) = Len(W)
            /\ bindings.value.header.FunctionPointerCount = Len(W)
            /\ bindings.value.data.FunctionPointers = Len(W)
            /\ \A k \in 1..Len(W) :
                   /\ W[k].index = k - 1
                   /\ N[W[k].index + 1] = W[k].name
            /\ [k \in 1..Len(W) |-> W[k].name]
                   = SelectSeq(RegistryCommands(registry),
                               LAMBDA c :
                                   /\ c \in DOMAIN features.commands
                                   /\ features.commands[c] = Runtime
                                   /\ (entry_points = NoFile
                                          \/ c \in Requested))

\* Bindings with two wrappers behind a linked declaration, whose names
\* take more than one line of the FunctionNames literal.
C5_Witness ==
    /\ bindings.some
    /\ Len(bindings.value.header.functions) = 3
    /\ bindings.value.header.functions[1].kind = "linked"
    /\ bindings.value.header.functions[2].kind = "runtime"
    /\ bindings.value.header.functions[3].kind = "runtime"
    /\ bindings.value.header.functions[3].index = 1
    /\ bindings.value.header.functions[2].name = glB
    /\ bindings.value.header.functions[3].name = glC
    /\ Len(SelectSeq(bindings.value.data.FunctionNames,
                     LAMBDA c : c = "\n")) > 1

\* C6: Subset completeness.  make_subset_bindings(S) allocates one
\* FunctionPointers slot for each Runtime command of the API whose name is
\* in S, emits every other Runtime command as missing, and emits the Linker
\* commands as linked declarations whether or not they are in S.
C6_SubsetCompleteness ==
    (entry_points # NoFile /\ bindings.some) =>
        LET header == bindings.value.header
        IN  /\ header.FunctionPointerCount =
                   Cardinality({i \in 1..Len(functions) :
                                   /\ functions[i].call = Runtime
                                   /\ functions[i].name \in Requested})
            /\ Len(Wrappers(header)) = header.FunctionPointerCount
            /\ Len(header.functions) = Len(functions)
            /\ \A i \in 1..Len(functions) :
                   /\ header.functions[i].name = functions[i].name
                   /\ header.functions[i].kind =
                          IF functions[i].call = Linker THEN "linked"
                          ELSE IF functions[i].name \in Requested
                          THEN "runtime"
                          ELSE "missing"

\* A subset run with a requested Linker command, a requested Runtime
\* command and a Runtime command that was not requested.
C6_Witness ==
    /\ entry_points # NoFile
    /\ bindings.some
    /\ glA \in Requested
    /\ \E i, j, k \in 1..Len(bindings.value.header.functions) :
           /\ bindings.value.header.functions[i].kind = "linked"
           /\ bindings.value.header.functions[i].name = glA
           /\ bindings.value.header.functions[j].kind = "runtime"
           /\ bindings.value.header.functions[k].kind = "missing"

\* The requested names that match no command of the API.
UnknownNames ==
    Requested \ {functions[i].name : i \in 1..Len(functions)}

\* C7: Unknown subset names.  make_subset_bindings(S) returns
\* Err(UnknownFunctions(U)), U the names of S that match no command of the
\* API, whenever U is not empty, and Ok(Bindings) only when U is empty.
C7_UnknownSubsetNames ==
    (entry_points # NoFile /\ pc \in {"bindings", "header", "done"}) =>
        /\ bindings.some
        /\ UnknownNames = {}

\* C8: No output on failure.  Whenever Args::run returns an error, no
\* output file has been written.
C8_NoOutputOnFailure ==
    pc = "failed" => files = NoFiles

-----------------------------------------------------------------------------
(* Duplicates *)

\* No name occurs twice in a sequence of names.
Distinct(names) ==
    \A i, j \in 1..Len(names) : names[i] = names[j] => i = j

\* C11: Duplicate function.  The function list of the API, the lookups of
\* the bindings and the FunctionNames table never contain the same command
\* name twice; a second <command> with a selected name that was already
\* emitted makes Function::parse_all fail.
C11_DuplicateFunction ==
    /\ pc \in {"api", "bindings", "header", "done"} =>
           Distinct([i \in 1..Len(functions) |-> functions[i].name])
    /\ bindings.some =>
           /\ Distinct([k \in 1..Len(Wrappers(bindings.value.header)) |->
                           Wrappers(bindings.value.header)[k].name])
           /\ Distinct(SplitNul(CStringBytes(
                           bindings.value.data.FunctionNames)))

\* The selected <enum> elements of the registry, by name.
SelectedEnumNames ==
    LET E == SelectedEnums(registry, features.enums)
    IN  [k \in 1..Len(E) |-> E[k].name]

\* The registry without the <enum> elements that emit_enums skips: those
\* of another api and those whose name is not selected.
WithoutSkippedEnums(reg, selected) ==
    [reg EXCEPT !.children =
        [b \in 1..Len(reg.children) |->
            IF reg.children[b].tag # "enums" THEN reg.children[b]
            ELSE [reg.children[b] EXCEPT !.children =
                     SelectSeq(@, LAMBDA x :
                         ~(/\ x.tag = "enum"
                           /\ \/ attribute(x, "api") \notin {None, s_gl}
                              \/ /\ attribute(x, "name") # None
                                 /\ attribute(x, "name") \notin selected))]]]

\* emit_enums has run: Build has filled the enums set and EmitEnums has
\* left "features".
EmitEnumsDone ==
    features.enums # {} /\ pc \in {"enums", "failed", "panicked"}

\* C12: Duplicate enum.  Every enum name is declared at most once and only
\* if it is in the resolved enums set; a second <enum> for the gl api with
\* a selected name that was already emitted makes emit_enums fail with
\* DuplicateEnum; the elements of another api and those with a name that
\* is not selected are skipped: the outcome is that of the registry
\* without them.
C12_DuplicateEnum ==
    /\ pc = "enums" =>
           /\ Distinct([k \in 1..Len(enums) |-> enums[k].name])
           /\ \A k \in 1..Len(enums) : enums[k].name \in features.enums
           /\ Distinct(SelectedEnumNames)
    /\ (error # <<>> /\ error[1] = "DuplicateEnum") =>
           /\ pc = "failed"
           /\ enums = <<>>
           /\ \E k, t \in 1..Len(SelectedEnumNames) :
                  /\ t < k
                  /\ SelectedEnumNames[k] = error[2]
                  /\ SelectedEnumNames[t] = error[2]
    /\ EmitEnumsDone =>
           LET r == emit_enums(features.enums,
                               WithoutSkippedEnums(registry, features.enums))
           IN  IF pc = "enums" THEN r.ok /\ r.value = enums
               ELSE ~r.ok /\ r.error = error

\* emit_enums has failed on the second of two selected <enum> elements
\* named GL_Y, where the first has api="gl".
C12_Witness ==
    /\ pc = "failed"
    /\ error = <<"DuplicateEnum", GL_Y>>
    /\ \E b \in 1..Len(registry.children) :
           /\ registry.children[b].tag = "enums"
           /\ Len(registry.children[b].children) > 0
           /\ attribute(registry.children[b].children[1], "api") = s_gl

\* An <enum> of another api and an <enum> that is not selected, both named
\* GL_X, have been skipped without error.
C12_Skipped ==
    /\ pc = "enums"
    /\ enums = <<>>
    /\ \E b \in 1..Len(registry.children) :
           /\ registry.children[b].tag = "enums"
           /\ Len(registry.children[b].children) = 2
           /\ attribute(registry.children[b].children[1], "api") = s_gles2
           /\ attribute(registry.children[b].children[2], "name") = GL_X

-----------------------------------------------------------------------------
(* Extensions of the request *)

\* The names declared by <extensions><extension name=...> elements.
DeclaredExtensions(reg) ==
    UNION {{x.attrs.name :
               x \in {y \in Range(b.children) :
                         y.tag = "extension" /\ "name" \in DOMAIN y.attrs}} :
           b \in {c \in Range(reg.children) : c.tag = "extensions"}}

\* Every <extensions><extension> element has a name.
ExtensionsNamed(reg) ==
    \A b \in Range(reg.children) :
        b.tag = "extensions" =>
            \A x \in Range(b.children) :
                x.tag = "extension" => "name" \in DOMAIN x.attrs

\* The extension names of the request: those of the api APISpec, then
\* those of the link APISpec.
RequestedExtensions == api.extensions \o link.extensions

UnknownRequested ==
    {i \in 1..Len(RequestedExtensions) :
        RequestedExtensions[i] \notin DeclaredExtensions(registry)}

\* C13: Unknown extension.  If an extension name of the api APISpec or of
\* the link APISpec is not declared by an <extensions><extension name=..>
\* element of the registry, API::parse fails and produces no API; the
\* error is UnknownExtension of the first such name, unless an <extension>
\* without a name made all_extensions fail before.  UnknownExtension is
\* reported for no declared name.
C13_UnknownExtension ==
    /\ (pc # "parse" /\ UnknownRequested # {}) =>
           /\ pc = "failed"
           /\ spec = NoSpec
           /\ features = EmptyFeatureSet
           /\ enums = <<>> /\ functions = <<>> /\ extensions = <<>>
           /\ bindings = NoBindings
           /\ IF ExtensionsNamed(registry)
              THEN error = <<"UnknownExtension",
                             RequestedExtensions[Min(UnknownRequested)]>>
              ELSE error[1] = "XML" /\ error[2] = "MissingAttribute"
    /\ (error # <<>> /\ error[1] = "UnknownExtension") =>
           /\ UnknownRequested # {}
           /\ error[2] \notin DeclaredExtensions(registry)

\* API::parse has failed on a name of the link APISpec that the registry
\* does not declare, every name of the api APISpec being declared.
C13_Witness ==
    /\ pc = "failed"
    /\ error = <<"UnknownExtension", GL_N>>
    /\ api.extensions = <<GL_E>>
    /\ link.extensions = <<GL_N>>
    /\ GL_E \in DeclaredExtensions(registry)

\* A directive applies, by the request alone: its feature is at or below
\* the api version, or its extension is listed in the api APISpec.
AppliesToRequest(d) ==
    IF d.src = "feature"
    THEN ~Before(api.version, d.version)
    ELSE d.ext \in Range(api.extensions)

\* The applicable directives of the registry that name `name`.
RequestNaming(D, type, name) ==
    {i \in 1..Len(D) :
        D[i].type = type /\ D[i].name = name /\ AppliesToRequest(D[i])}

\* C14: Extension call type.  A command whose last applicable require is
\* that of a requested extension is tagged Linker if the extension is also
\* in the link APISpec's extension list and Runtime otherwise; the
\* extensions of the link APISpec that the api APISpec does not list
\* contribute no enum and no command: enums and commands are those of the
\* features and of the extensions of the api APISpec.
C14_ExtensionCallType ==
    pc = "features" =>
        LET D == Directives(registry)
        IN  /\ \A c \in {glA, glB} :
                   LET idx == RequestNaming(D, "command", c)
                   IN  /\ c \in DOMAIN features.commands <=> idx # {}
                       /\ (idx # {} /\ D[Max(idx)].src = "extension") =>
                              features.commands[c] =
                                  IF D[Max(idx)].ext \in Range(link.extensions)
                                  THEN Linker ELSE Runtime
            /\ DOMAIN features.commands \subseteq {glA, glB}
            /\ features.enums =
                   {e \in {GL_X} : RequestNaming(D, "enum", e) # {}}

\* GL_E and GL_F are requested and GL_E is in the link list: the command of
\* GL_E is tagged Linker, that of GL_F Runtime.
C14_Witness ==
    /\ pc = "features"
    /\ Range(api.extensions) = {GL_E, GL_F}
    /\ link.extensions = <<GL_E>>
    /\ DOMAIN features.commands = {glA, glB}
    /\ features.commands[glA] = Linker
    /\ features.commands[glB] = Runtime

\* GL_F is in the link list only and its command is not in the API.
C14_LinkOnly ==
    /\ pc = "features"
    /\ api.extensions = <<GL_E>>
    /\ link.extensions = <<GL_F>>
    /\ GL_F \in DeclaredExtensions(registry)
    /\ DOMAIN features.commands = {glA}

-----------------------------------------------------------------------------
(* The text of an APISpec, as the claims about parsing read it *)

\* The pieces of text between the occurrences of a character of seps,
\* empty pieces included, in order.
RECURSIVE Pieces(_, _)
Pieces(text, seps) ==
    IF \E i \in 1..Len(text) : text[i] \in seps
    THEN LET i == Min({k \in 1..Len(text) : text[k] \in seps})
         IN  <<SubSeq(text, 1, i - 1)>>
             \o Pieces(SubSeq(text, i + 1, Len(text)), seps)
    ELSE <<text>>

\* The tokens of a text: its pieces between white space that are not empty.
Tokens(text) ==
    SelectSeq(Pieces(text, AsciiWhitespace), LAMBDA t : Len(t) # 0)

\* t without its leading zeros.
RECURSIVE StripZeros(_)
StripZeros(t) ==
    IF Len(t) # 0 /\ t[1] = "0" THEN StripZeros(Tail(t)) ELSE t

\* A decimal number that fits a u8.
IsU8(t) ==
    /\ Len(t) # 0
    /\ \A i \in 1..Len(t) : t[i] \in Digits
    /\ Len(StripZeros(t)) <= 3
    /\ DecimalValue(StripZeros(t)) <= 255

\* The version of a text as C15 reads it: the first two dot-separated
\* components, when there are two and both are u8 numbers.
FirstTwoComponents(text) ==
    LET components == Pieces(text, {"."})
    IN  IF Len(components) >= 2 /\ IsU8(components[1]) /\ IsU8(components[2])
        THEN Some(Version(DecimalValue(StripZeros(components[1])),
                          DecimalValue(StripZeros(components[2]))))
        ELSE Nothing

\* GLAPI::evaluate has failed on a property.
EvaluateFailed ==
    /\ pc = "failed"
    /\ error[1] \in {"PropertyValue", "MissingProperty"}

\* GLAPI::evaluate has rejected the version of the "api" property.
ApiVersionRejected ==
    /\ EvaluateFailed
    /\ error[1] = "PropertyValue"
    /\ error[2] = "api"
    /\ error[3] = "InvalidVersion"

\* C15: Version::parse reads only the first two integer components: a text
\* with more dot-separated segments, such as "3.3.1", parses as the version
\* of its first two; a text without '.' or with a first or second component
\* that is not a u8 yields no value.
C15_VersionParse ==
    (pc # "evaluate" /\ properties.api # None
         /\ Len(Tokens(properties.api)) # 0) =>
        LET version == FirstTwoComponents(Tokens(properties.api)[1])
        IN  IF version.some
            THEN /\ ~ApiVersionRejected
                 /\ ~EvaluateFailed => api.version = version.value
            ELSE ApiVersionRejected

\* What from_str makes of the text of the property `name`, as C16 reads it:
\* `failed` tells that evaluate failed on this property, with `reason`.
FromStrOutcome(name) ==
    [failed |-> EvaluateFailed /\ error[2] = name,
     reason |-> IF EvaluateFailed /\ error[1] = "PropertyValue"
                   /\ error[2] = name
                THEN error[3] ELSE ""]

\* C16 for the text of one property, parsed into value when evaluate
\* succeeds.
ParsedAsClaimed(name, text, value) ==
    LET tokens == Tokens(text)
        outcome == FromStrOutcome(name)
    IN  IF Len(tokens) = 0
        THEN outcome.failed /\ outcome.reason = "Empty"
        ELSE IF ~Version_parse(tokens[1]).some
        THEN outcome.failed /\ outcome.reason = "InvalidVersion"
        ELSE /\ ~outcome.failed
             /\ ~EvaluateFailed =>
                    /\ value.version = Version_parse(tokens[1]).value
                    /\ value.extensions = Tail(tokens)

\* C16: APISpec parsing.  APISpec::from_str splits its input on ASCII white
\* space; without a token it fails with Empty; with a first token that
\* Version::parse rejects it fails with InvalidVersion; otherwise it
\* succeeds with that version and with the remaining tokens as extensions,
\* verbatim, in input order, duplicates kept, whether or not the registry
\* declares them.
C16_APISpecParsing ==
    /\ (pc # "evaluate" /\ properties.api # None) =>
           ParsedAsClaimed("api", properties.api, api)
    /\ (pc # "evaluate" /\ properties.link # None
            /\ ~(EvaluateFailed /\ error[2] = "api")) =>
           ParsedAsClaimed("link", properties.link, link)

\* from_str has kept an extension name twice, and a name that the
\* registry does not declare in front of one that it declares.
C16_Witness ==
    /\ pc = "parse"
    /\ api.version = Version(1, 1)
    /\ \/ api.extensions = <<GL_E, GL_E>>
       \/ api.extensions = <<GL_N, GL_E>>
    /\ link.extensions = <<GL_E>>

-----------------------------------------------------------------------------
(* Sizes of the data file *)

\* The names of the inline wrappers of the header, in order: the lookups.
Lookups ==
    [k \in 1..Len(Wrappers(bindings.value.header)) |->
        Wrappers(bindings.value.header)[k].name]

\* The bytes a string literal occupies: those written between the quotes
\* and the terminating NUL the compiler adds.
LiteralSize(text) == Len(CStringBytes(text)) + 1

\* C17: FunctionNames size.  For every lookups list, the empty one
\* included, the array size declared for FunctionNames equals
\* sum(name lengths) + name count and equals the number of bytes of the
\* emitted string literal; FunctionPointerCount of the header and the size
\* of FunctionPointers in the data both equal lookups.len().
C17_FunctionNamesSize ==
    bindings.some =>
        /\ bindings.value.data.FunctionNamesSize
               = SumLen(Lookups) + Len(Lookups)
        /\ bindings.value.data.FunctionNamesSize
               = LiteralSize(bindings.value.data.FunctionNames)
        /\ bindings.value.header.FunctionPointerCount = Len(Lookups)
        /\ bindings.value.data.FunctionPointers = Len(Lookups)

\* C17 for the lists that are not empty (what the code does).
C17_NonEmpty ==
    (bindings.some /\ Len(Lookups) # 0) => C17_FunctionNamesSize

-----------------------------------------------------------------------------
(* Determinism *)

\* An APISpec with its extension names in ascending order, each once.
NormalRequest(a) ==
    [version |-> a.version, extensions |-> sorted(Range(a.extensions))]

\* The subset of the run: the entry points of the sources of the
\* configuration, the lines of the --entry-points file, or none.
RunSubset ==
    IF config.some THEN Some(returned.entry_points)
    ELSE IF entry_points = NoFile THEN Nothing
    ELSE Some(Requested)

\* The bindings of a run of API::parse and make_bindings_impl that succeeds
\* on the registry reg with the request (a, l), its extension names taken
\* in ascending order.
BindingsOf(reg, a, l, subset) ==
    LET fs == FeatureSpec_from_specs(a, l, reg).value
        set == FeatureSet_build(reg, fs).value
    IN  make_bindings_impl(emit_enums(set.enums, reg).value,
                           Function_parse_all(set.commands, reg).value,
                           sorted(DOMAIN fs.extensions), subset).value

\* C18: Determinism.  The header and the data of a run are those of every
\* other run on the same registry, versions and set of requested extension
\* names: they depend neither on the order in which the hash map yields the
\* extension names nor on the order or the repetition of the names in the
\* two APISpec values.
C18_Determinism ==
    bindings.some =>
        bindings.value = BindingsOf(registry, NormalRequest(api),
                                    NormalRequest(link), RunSubset)

\* Bindings of a request that lists GL_F before GL_E, and bindings of a
\* request that lists GL_E twice.
C18_Witness ==
    /\ bindings.some
    /\ \/ api.extensions = <<GL_F, GL_E>>
       \/ api.extensions = <<GL_E, GL_E>>
    /\ bindings.value.header.ExtensionCount = Cardinality(Range(api.extensions))
    /\ bindings.value.header.extensions[1].name = GL_E

-----------------------------------------------------------------------------
(* The <remove> elements of a registry *)

\* The feature is one that FeatureSet::build applies: for the gl api, with
\* a version that parses and is not above max_version.
AppliedFeature(f, max_version) ==
    /\ f.tag = "feature"
    /\ attribute(f, "api") = s_gl
    /\ attribute(f, "number") # None
    /\ Version_parse(attribute(f, "number")).some
    /\ ~Before(max_version, Version_parse(attribute(f, "number")).value)

\* The feature is one that FeatureSet::build passes over.
SkippedFeature(f, max_version) ==
    /\ f.tag = "feature"
    /\ attribute(f, "api") # None
    /\ \/ attribute(f, "api") # s_gl
       \/ /\ attribute(f, "number") # None
          /\ Version_parse(attribute(f, "number")).some
          /\ Before(max_version, Version_parse(attribute(f, "number")).value)

\* A <remove> with a profile other than "core".
OtherProfile(d) ==
    d.tag = "remove" /\ attribute(d, "profile") \notin {None, s_core}

\* The <remove> elements with another profile in applied features: <<i, k>>
\* for child k of top-level child i.
OtherProfileRemoves(reg, max_version) ==
    {p \in (1..Len(reg.children)) \X (1..3) :
        /\ AppliedFeature(reg.children[p[1]], max_version)
        /\ p[2] <= Len(reg.children[p[1]].children)
        /\ OtherProfile(reg.children[p[1]].children[p[2]])}

\* The registry up to, and without, child k of its top-level child i.
UpTo(reg, i, k) ==
    [reg EXCEPT !.children =
        Append(SubSeq(reg.children, 1, i - 1),
               [reg.children[i] EXCEPT !.children = SubSeq(@, 1, k - 1)])]

\* The registry without the features that are passed over.
WithoutSkippedFeatures(reg, max_version) ==
    [reg EXCEPT !.children =
        SelectSeq(@, LAMBDA f : ~SkippedFeature(f, max_version))]

\* FeatureSet::build has run.
BuildDone == "max_version" \in DOMAIN spec /\ pc \in {"features", "failed"}

\* C19: Remove profile.  A <remove> with a profile other than "core" in a
\* gl feature at or below max_version makes resolution fail, with
\* InvalidRemoveProfile when the registry before it resolves without
\* error; InvalidRemoveProfile is reported for such a <remove> only, and
\* the features that are skipped (another api, or a version above
\* max_version) have no part in the outcome: it is that of the registry
\* without them.
C19_RemoveProfile ==
    BuildDone =>
        LET bad == OtherProfileRemoves(registry, spec.max_version)
            without == FeatureSet_build(
                           WithoutSkippedFeatures(registry, spec.max_version),
                           spec)
        IN  /\ bad # {} => pc = "failed"
            /\ \A p \in bad :
                   FeatureSet_build(UpTo(registry, p[1], p[2]), spec).ok
                       => error = <<"InvalidRemoveProfile">>
            /\ (pc = "failed" /\ error = <<"InvalidRemoveProfile">>)
                   => /\ bad # {}
                      /\ features = EmptyFeatureSet
            /\ IF pc = "features"
               THEN without.ok /\ without.value = features
               ELSE ~without.ok /\ without.error = error

\* Resolution has failed on a <remove profile="compat"> that follows an
\* applied <require>.
C19_Witness ==
    /\ pc = "failed"
    /\ error = <<"InvalidRemoveProfile">>
    /\ \E p \in OtherProfileRemoves(registry, spec.max_version) :
           /\ p[1] = 2
           /\ AppliedFeature(registry.children[1], spec.max_version)

\* Resolution has succeeded on a registry with a <remove profile="compat">
\* in a feature of another api and one in a gl feature above max_version.
C19_Skipped ==
    /\ pc = "features"
    /\ Len(registry.children) = 2
    /\ attribute(registry.children[1], "api") = s_gles2
    /\ attribute(registry.children[2], "api") = s_gl
    /\ \A i \in 1..2 :
           /\ SkippedFeature(registry.children[i], spec.max_version)
           /\ OtherProfile(registry.children[i].children[1])

-----------------------------------------------------------------------------
(* The default type of an <enums> block *)

\* C20: Enum block default type.  The default type of an <enums> block is
\* GLbitfield when type="bitmask" and GLenum when the type attribute is
\* absent or has any other value, then passed through the type map; every
\* enum without a type of its own is declared with it, and emit_enums never
\* aborts because of the type attribute of an <enums> block.
C20_EnumsBlockType ==
    /\ pc # "panicked"
    /\ pc = "enums" =>
           LET E == SelectedEnums(registry, features.enums)
           IN  /\ Len(enums) = Len(E)
               /\ \A k \in 1..Len(E) : enums[k].ty = E[k].ty
    /\ (EmitEnumsDone /\ pc = "failed") =>
           error[1] \in {"DuplicateEnum", "UnknownType", "AliasConflict", "XML"}

-----------------------------------------------------------------------------
(* Return types: the children of a <proto> *)

MaxProto == 3

\* Children of a <proto>: text, <ptype>, the <name> of a selected and of an
\* unselected command, and an element that is neither.
ProtoPieces ==
    {Text(s_void \o <<" ">>),
     Text(<<"x">>),
     ws,
     Element("ptype", NoAttrs, <<Text(s_GLint)>>),
     Element("name", NoAttrs, <<Text(glA)>>),
     Element("name", NoAttrs, <<Text(glZ)>>),
     Element("unused", NoAttrs, <<>>)}

\* One <feature> that requires glA, and one <command>.
PrototypeRegistries ==
    {Registry(<<Feature(s_gl, v_1_0, <<Require(<<Command(glA)>>)>>),
                Element("commands", NoAttrs,
                        <<Element("command", NoAttrs,
                                  <<Element("proto", NoAttrs, c)>>)>>)>>) :
        c \in SeqsUpTo(ProtoPieces, MaxProto)}

InitPrototypes ==
    /\ registry \in PrototypeRegistries
    /\ api = [version |-> Version(3, 3), extensions |-> <<>>]
    /\ link = [version |-> Version(1, 1), extensions |-> <<>>]
    /\ entry_points = NoFile
    /\ InitRest

NextPrototypes == FromSpecs \/ Build \/ EmitEnums \/ ParseAll

SpecPrototypes == InitPrototypes /\ [][NextPrototypes]_vars

\* The <proto> of the one <command> of a registry of PrototypeRegistries.
TheProto == registry.children[2].children[1].children[1].children

\* The position of the first <name>, 0 without one.
NamePosition ==
    LET at == {i \in 1..Len(TheProto) : TheProto[i].tag = "name"}
    IN  IF at = {} THEN 0 ELSE Min(at)

\* Function::parse_all has run on a <proto> whose command is selected.
ReturnTypeDone ==
    /\ pc \in {"api", "failed"}
    /\ NamePosition # 0
    /\ TheProto[NamePosition].children[1].attrs.text \in DOMAIN features.commands

NonWhitespace(text) == \E k \in 1..Len(text) : text[k] \notin AsciiWhitespace

\* Children that the prototype may not have.
PtypeAfterName == {i \in NamePosition + 1..Len(TheProto) : TheProto[i].tag = "ptype"}
TextAfterName ==
    {i \in NamePosition + 1..Len(TheProto) :
        TheProto[i].tag = "#text" /\ NonWhitespace(TheProto[i].attrs.text)}
OtherElement == {i \in 1..Len(TheProto) : TheProto[i].tag \notin {"#text", "ptype", "name"}}

\* The text and the mapped <ptype> contents in front of the <name>.
TextBeforeName ==
    Concat([i \in 1..NamePosition - 1 |->
               IF TheProto[i].tag = "ptype"
               THEN TypeMap_map(TheProto[i].children[1].attrs.text)
               ELSE TheProto[i].attrs.text])

\* t is s without its trailing white space.
IsTrimmed(t, s) ==
    /\ Len(t) <= Len(s)
    /\ t = SubSeq(s, 1, Len(t))
    /\ ~NonWhitespace(SubSeq(s, Len(t) + 1, Len(s)))
    /\ Len(t) # 0 => t[Len(t)] \notin AsciiWhitespace

ReturnTypeValue ==
    IF IsTrimmed(<<>>, TextBeforeName)
    THEN pc = "failed" /\ error = <<"InvalidPrototype">>
    ELSE /\ pc = "api"
         /\ Len(functions) = 1
         /\ IsTrimmed(functions[1].return_type, TextBeforeName)

\* C21 as stated: a <ptype> behind the <name>, an element other than <ptype>
\* and <name>, and text other than white space behind the <name> each give
\* InvalidPrototype; otherwise the return type is the trimmed text in front
\* of the <name>, and an empty one is InvalidPrototype.
C21_ReturnType_AsStated ==
    ReturnTypeDone =>
        IF PtypeAfterName \cup TextAfterName \cup OtherElement # {}
        THEN pc = "failed" /\ error = <<"InvalidPrototype">>
        ELSE ReturnTypeValue

\* C21, amended: the first child that the prototype may not have decides; a
\* <ptype> or text other than white space behind the <name> gives
\* InvalidPrototype, an element other than <ptype> and <name> gives the
\* unexpected-tag error of the XML reader; without such a child the return
\* type is the trimmed text in front of the <name>, and an empty one is
\* InvalidPrototype.
C21_ReturnType ==
    ReturnTypeDone =>
        LET bad == PtypeAfterName \cup TextAfterName \cup OtherElement
        IN  IF bad # {}
            THEN /\ pc = "failed"
                 /\ IF Min(bad) \in OtherElement
                    THEN error = <<"XML", "UnexpectedTag",
                                   TheProto[Min(bad)].tag, "proto">>
                    ELSE error = <<"InvalidPrototype">>
            ELSE ReturnTypeValue

\* A mapped <ptype> in front of the <name> became the return type, white
\* space trimmed.
C21_Witness ==
    /\ ReturnTypeDone
    /\ pc = "api"
    /\ Len(functions) = 1
    /\ functions[1].return_type = s_int
    /\ Len(TextBeforeName) > Len(s_int)

-----------------------------------------------------------------------------
(* Extension metadata *)

\* The names are in ascending order of their bytes, none twice.
Ascending(names) ==
    \A i, j \in 1..Len(names) :
        i < j => names[i] # names[j] /\ str_le(names[i], names[j])

\* The names of the ExtensionNames table of the data file, in order.
ExtensionTable ==
    SplitNul(CStringBytes(bindings.value.data.extensions.value.ExtensionNames))

\* C22: Extension metadata.  The extension list of an API holds the names
\* of the request (the extension names of the api APISpec, from which the
\* extension map is built), each once, in ascending order, also when the
\* request repeats a name.  In the bindings, the index of the marker object of every
\* extension is the position of its name in the NUL-separated ExtensionNames
\* table, and ExtensionCount is the size of the ExtensionAvailable array.
C22_ExtensionMetadata ==
    /\ pc \in {"api", "bindings", "header", "done"} =>
           /\ Ascending(extensions)
           /\ Range(extensions) = Range(api.extensions)
    /\ (bindings.some /\ Len(extensions) # 0) =>
           /\ bindings.value.data.extensions.some
           /\ Len(ExtensionTable) = Len(extensions)
           /\ Len(bindings.value.header.extensions) = Len(extensions)
           /\ \A n \in 1..Len(extensions) :
                  LET marker == bindings.value.header.extensions[n]
                  IN  /\ marker.name = extensions[n]
                      /\ marker.index + 1 \in 1..Len(ExtensionTable)
                      /\ ExtensionTable[marker.index + 1] = marker.name
           /\ bindings.value.header.ExtensionCount =
                  bindings.value.data.extensions.value.ExtensionAvailable

\* Bindings with the table GL_E, GL_F of a request that names GL_F first,
\* the marker of GL_F holding the index 1.
C22_Witness ==
    /\ bindings.some
    /\ api.extensions = <<GL_F, GL_E>>
    /\ bindings.value.header.extensions[2].name = GL_F
    /\ bindings.value.header.extensions[2].index = 1
    /\ ExtensionTable = <<GL_E, GL_F>>

\* Bindings with the table GL_E of a request that names GL_E twice.
C22_Repeated ==
    /\ bindings.some
    /\ api.extensions = <<GL_E, GL_E>>
    /\ ExtensionTable = <<GL_E>>

-----------------------------------------------------------------------------
(* The entry-point scanner (tools/src/identifier.rs, tools/src/gl/scan.rs) *)

MaxScan == 3

AsciiDigit == {"0", "1", "2", "3", "4", "5", "6", "7", "8", "9"}
AsciiLower ==
    {"a", "b", "c", "d", "e", "f", "g", "h", "i", "j", "k", "l", "m",
     "n", "o", "p", "q", "r", "s", "t", "u", "v", "w", "x", "y", "z"}
AsciiUpper ==
    {"A", "B", "C", "D", "E", "F", "G", "H", "I", "J", "K", "L", "M",
     "N", "O", "P", "Q", "R", "S", "T", "U", "V", "W", "X", "Y", "Z"}

\* '0'..='9' | 'a'..='z' | 'A'..='Z' | '_'
IdentifierChar == AsciiDigit \cup AsciiLower \cup AsciiUpper \cup {"_"}

\* Chars::next at position i of text: the character, "" for None.
chars_next(text, i) == IF i > Len(text) THEN "" ELSE text[i]

\* skip_string: the position behind the literal that was opened before i.
RECURSIVE skip_string(_, _, _)
skip_string(text, i, delim) ==
    IF i > Len(text) THEN i
    ELSE IF text[i] = delim THEN i + 1
    ELSE IF text[i] = "\\"
    THEN skip_string(text, IF i + 1 > Len(text) THEN i + 1 ELSE i + 2, delim)
    ELSE skip_string(text, i + 1, delim)

\* skip_number: the position behind the pp-number whose start is before i.
RECURSIVE skip_number(_, _)
skip_number(text, i) ==
    IF i > Len(text) THEN i
    ELSE
    LET ch == text[i]
    IN  IF ch \in {"e", "E", "p", "P"}
        THEN skip_number(text, IF chars_next(text, i + 1) \in {"-", "+"}
                               THEN i + 2 ELSE i + 1)
        ELSE IF ch \in IdentifierChar \cup {"."}
        THEN skip_number(text, i + 1)
        ELSE IF ch = "'"
        THEN IF chars_next(text, i + 1) \in IdentifierChar
             THEN skip_number(text, i + 2)
             ELSE i
        ELSE i

\* The loop of a // comment: the position behind the line end, 0 for the
\* end of the text (break 'outer).
RECURSIVE skip_line_comment(_, _)
skip_line_comment(text, i) ==
    IF i > Len(text) THEN 0
    ELSE IF text[i] \in {"\n", "\r"} THEN i + 1
    ELSE skip_line_comment(text, i + 1)

\* The loop of a /* comment: the position behind its end, 0 for the end of
\* the text (break 'outer).
RECURSIVE skip_block_comment(_, _)
skip_block_comment(text, i) ==
    IF i > Len(text) THEN 0
    ELSE IF text[i] = "*"
    THEN IF i + 1 > Len(text) THEN 0
         ELSE IF text[i + 1] = "/" THEN i + 2
         ELSE skip_block_comment(text, i + 2)
    ELSE skip_block_comment(text, i + 1)

\* The inner loop of an identifier: the position behind its last character.
RECURSIVE identifier_end(_, _)
identifier_end(text, i) ==
    IF i > Len(text) THEN i
    ELSE IF text[i] \in IdentifierChar THEN identifier_end(text, i + 1)
    ELSE i

\* The 'outer loop of Identifiers::next from position i on: the item and
\* the new self.0.
RECURSIVE Identifiers_next_loop(_, _)
Identifiers_next_loop(text, i) ==
    IF i > Len(text) THEN [item |-> Nothing, rest |-> <<>>]
    ELSE
    LET ch == text[i]
    IN  IF ch \in {"\"", "'"}
        THEN Identifiers_next_loop(text, skip_string(text, i + 1, ch))
        ELSE IF ch = "/"
        THEN IF i + 1 > Len(text) THEN [item |-> Nothing, rest |-> <<>>]
             ELSE IF text[i + 1] \in {"/", "*"}
             THEN LET j == IF text[i + 1] = "/"
                           THEN skip_line_comment(text, i + 2)
                           ELSE skip_block_comment(text, i + 2)
                  IN  IF j = 0 THEN [item |-> Nothing, rest |-> <<>>]
                      ELSE Identifiers_next_loop(text, j)
             ELSE Identifiers_next_loop(text, i + 2)
        ELSE IF ch \in AsciiDigit
        THEN Identifiers_next_loop(text, skip_number(text, i + 1))
        ELSE IF ch = "."
        THEN IF chars_next(text, i + 1) \in AsciiDigit
             THEN Identifiers_next_loop(text, skip_number(text, i + 2))
             ELSE Identifiers_next_loop(text, i + 1)
        ELSE IF ch \in AsciiLower \cup AsciiUpper \cup {"_"}
        THEN LET j == identifier_end(text, i + 1)
             IN  [item |-> Some(SubSeq(text, i, j - 1)),
                  rest |-> SubSeq(text, j, Len(text))]
        ELSE Identifiers_next_loop(text, i + 1)

Identifiers_next(text) == Identifiers_next_loop(text, 1)

is_entrypoint(identifier) ==
    /\ Len(identifier) >= 3
    /\ starts_with(identifier, s_gl)
    /\ identifier[3] \in AsciiUpper

\* Pieces of source texts.
ScanPieces ==
    {glA, glB, <<"g", "l", "x">>, <<"x">>, <<"1">>, <<"e">>, <<"+">>,
     <<"/">>, <<"*">>, <<"\"">>, <<"'">>, <<"\\">>, <<"\n">>, <<".">>}

ScanTexts == {Concat(pieces) : pieces \in SeqsUpTo(ScanPieces, MaxScan)}

\* The variables of the binding generator, which the other tools leave alone.
generator_vars ==
    <<config, properties, registry, api, link, entry_points, spec, features, enums,
      functions, extensions, bindings, files, error>>

ToolRest ==
    /\ config = NoConfig
    /\ properties = NoProperties
    /\ registry = None
    /\ api = NoAPISpec
    /\ link = NoAPISpec
    /\ entry_points = NoFile
    /\ spec = NoSpec
    /\ features = EmptyFeatureSet
    /\ enums = <<>>
    /\ functions = <<>>
    /\ extensions = <<>>
    /\ bindings = NoBindings
    /\ files = NoFiles
    /\ error = <<>>

\* read_file_entrypoints after fs::read_to_string: the text to scan is what
\* Identifiers holds, the result is empty.
InitScan ==
    /\ input \in ScanTexts
    /\ returned = [identifiers |-> input, result |-> {}]
    /\ pc = "scan"
    /\ ToolRest

\* One turn of the for loop of read_file_entrypoints: Identifiers::next, and
\* the insertion of an entry point.
ScanIdentifier ==
    /\ pc = "scan"
    /\ LET n == Identifiers_next(returned.identifiers)
       IN  /\ n.item.some
           /\ returned' = [identifiers |-> n.rest,
                           result |-> IF is_entrypoint(n.item.value)
                                      THEN returned.result \cup {n.item.value}
                                      ELSE returned.result]
    /\ UNCHANGED <<input, pc, generator_vars>>

\* Identifiers::next returns None: Ok(result).
ScanEnd ==
    /\ pc = "scan"
    /\ ~Identifiers_next(returned.identifiers).item.some
    /\ returned' = [returned EXCEPT !.identifiers = <<>>]
    /\ pc' = "done"
    /\ UNCHANGED <<input, generator_vars>>

NextScan == ScanIdentifier \/ ScanEnd

SpecScan == InitScan /\ [][NextScan]_vars

\* The identifiers of a C++ source text, read character by character.  The
\* reader is in the code, in a literal with its delimiter (behind a
\* backslash or not), behind a slash, in a comment of either kind (behind a
\* star or not), in a number (behind an exponent letter or a digit
\* separator or not), behind a period, or in an identifier, whose
\* characters so far are cur.
RECURSIVE ReadChar(_, _)
ReadChar(st, c) ==
    LET code == [st EXCEPT !.mode = "code"]
    IN  CASE st.mode = "code" ->
                 IF c \in {"\"", "'"} THEN [st EXCEPT !.mode = "literal", !.delim = c]
                 ELSE IF c = "/" THEN [st EXCEPT !.mode = "slash"]
                 ELSE IF c = "." THEN [st EXCEPT !.mode = "period"]
                 ELSE IF c \in AsciiDigit THEN [st EXCEPT !.mode = "number"]
                 ELSE IF c \in IdentifierChar
                 THEN [st EXCEPT !.mode = "identifier", !.cur = <<c>>]
                 ELSE st
          [] st.mode = "literal" ->
                 IF c = st.delim THEN code
                 ELSE IF c = "\\" THEN [st EXCEPT !.mode = "escape"]
                 ELSE st
          [] st.mode = "escape" -> [st EXCEPT !.mode = "literal"]
          [] st.mode = "slash" ->
                 IF c = "/" THEN [st EXCEPT !.mode = "line"]
                 ELSE IF c = "*" THEN [st EXCEPT !.mode = "block"]
                 ELSE ReadChar(code, c)
          [] st.mode = "line" -> IF c = "\n" THEN code ELSE st
          [] st.mode = "block" ->
                 IF c = "*" THEN [st EXCEPT !.mode = "star"] ELSE st
          [] st.mode = "star" ->
                 IF c = "/" THEN code
                 ELSE IF c = "*" THEN st
                 ELSE [st EXCEPT !.mode = "block"]
          [] st.mode = "period" ->
                 IF c \in AsciiDigit THEN [st EXCEPT !.mode = "number"]
                 ELSE ReadChar(code, c)
          [] st.mode = "number" ->
                 IF c \in {"e", "E", "p", "P"} THEN [st EXCEPT !.mode = "exponent"]
                 ELSE IF c \in IdentifierChar \cup {"."} THEN st
                 ELSE IF c = "'" THEN [st EXCEPT !.mode = "separator"]
                 ELSE ReadChar(code, c)
          [] st.mode = "exponent" ->
                 IF c \in {"+", "-"} THEN [st EXCEPT !.mode = "number"]
                 ELSE ReadChar([st EXCEPT !.mode = "number"], c)
          [] st.mode = "separator" ->
                 IF c \in IdentifierChar THEN [st EXCEPT !.mode = "number"]
                 ELSE ReadChar([st EXCEPT !.mode = "literal", !.delim = "'"], c)
          [] st.mode = "identifier" ->
                 IF c \in IdentifierChar THEN [st EXCEPT !.cur = Append(@, c)]
                 ELSE ReadChar([st EXCEPT !.mode = "code", !.cur = <<>>,
                                          !.found = @ \cup {st.cur}], c)

RECURSIVE ReadText(_, _, _)
ReadText(st, text, i) ==
    IF i > Len(text)
    THEN IF st.mode = "identifier" THEN st.found \cup {st.cur} ELSE st.found
    ELSE ReadText(ReadChar(st, text[i]), text, i + 1)

IdentifiersOf(text) ==
    ReadText([mode |-> "code", delim |-> "", cur |-> <<>>, found |-> {}],
             text, 1)

\* The identifiers that look like entry points: "gl", then an upper case
\* letter.
EntryPointsOf(text) ==
    {id \in IdentifiersOf(text) :
        /\ Len(id) >= 3
        /\ SubSeq(id, 1, 2) = <<"g", "l">>
        /\ id[3] \in AsciiUpper}

\* C23: Entry-point scanner.  For every source text, the result of
\* read_file_entrypoints is the set of the identifiers of the text outside
\* literals, comments and numbers that are "gl" followed by an upper case
\* letter, whatever operator or punctuation character stands before the
\* identifier.
C23_EntryPoints ==
    pc = "done" => returned.result = EntryPointsOf(input)

\* C23 for the texts in which a slash stands only before a slash, a star,
\* a line end or the end of the text, and no star before a star (what the
\* code does).
C23_PlainSlashes ==
    (/\ pc = "done"
     /\ \A i \in 1..Len(input) :
            /\ input[i] = "/" =>
                   chars_next(input, i + 1) \in {"", "\n", "/", "*"}
            /\ input[i] = "*" => chars_next(input, i + 1) # "*") =>
        returned.result = EntryPointsOf(input)

-----------------------------------------------------------------------------
(* Build conditions (tools/src/project/condition.rs, buildtag.rs) *)

MaxTokens == 4

\* Condition::Value, Condition::Atom, and Condition::Operation of
\* Operation::Not, Operation::And and Operation::Or.
Value(value) == <<"Value", value>>
Atom(atom) == <<"Atom", atom>>
Not(expr) == <<"Not", expr>>
And(lhs, rhs) == <<"And", lhs, rhs>>
Or(lhs, rhs) == <<"Or", lhs, rhs>>

s_true == <<"t", "r", "u", "e">>
s_false == <<"f", "a", "l", "s", "e">>

\* <[u8]>::trim_ascii_start
RECURSIVE trim_ascii_start(_)
trim_ascii_start(text) ==
    IF Len(text) # 0 /\ text[1] \in AsciiWhitespace
    THEN trim_ascii_start(Tail(text))
    ELSE text

\* rest.iter().position(|&c| !c.is_ascii_alphanumeric() && c != b'_')
\* .unwrap_or(rest.len()), counted from position i of rest on.
RECURSIVE atom_length(_, _)
atom_length(rest, i) ==
    IF i > Len(rest) \/ rest[i] \notin IdentifierChar THEN i - 1
    ELSE atom_length(rest, i + 1)

\* Parser::next_token.  A parser is [text, tok, value]; constants tells the
\* parser of Condition (TRUE) from that of Expression (FALSE).
next_token(parser) ==
    LET start == trim_ascii_start(parser.text)
        invalid == [parser EXCEPT !.tok = "Error", !.value = <<>>]
    IN  IF Len(start) = 0
        THEN [parser EXCEPT !.tok = "End", !.value = <<>>, !.text = start]
        ELSE
        LET c == Head(start)
            rest == Tail(start)
            token(tok, n) ==
                [parser EXCEPT !.tok = tok, !.value = <<>>,
                               !.text = SubSeq(rest, n + 1, Len(rest))]
        IN  IF c = "!" THEN token("Not", 0)
            ELSE IF c = "(" THEN token("Open", 0)
            ELSE IF c = ")" THEN token("Close", 0)
            ELSE IF c = "&"
            THEN IF starts_with(rest, <<"&">>) THEN token("And", 1) ELSE invalid
            ELSE IF c = "|"
            THEN IF starts_with(rest, <<"|">>) THEN token("Or", 1) ELSE invalid
            ELSE IF c \in AsciiLower \cup AsciiUpper \cup {"_"}
            THEN LET n == atom_length(rest, 1)
                 IN  [token("Atom", n) EXCEPT !.value = SubSeq(start, 1, n + 1)]
            ELSE invalid

\* What a parse function leaves: the parser and the Result.
Parsed(parser, r) == [parser |-> parser, r |-> r]

\* F of a value that is computed once, however often F uses it.
Once(value, F(_)) == CHOOSE r \in {F(v) : v \in {value}} : TRUE

RECURSIVE parse_or(_)
RECURSIVE parse_or_loop(_, _)
RECURSIVE parse_and(_)
RECURSIVE parse_and_loop(_, _)
RECURSIVE parse_not_loop(_, _)
RECURSIVE parse_atom(_)

\* Mutant of parse_or_loop: the operand behind "||" is that of "&&".
parse_or_loop_tight(parser, expr) ==
    IF parser.tok = "Or"
    THEN Once(parse_not_loop(next_token(parser), FALSE),
              LAMBDA rhs :
                  IF ~rhs.r.ok THEN rhs
                  ELSE parse_or_loop(rhs.parser, Or(expr, rhs.r.value)))
    ELSE Parsed(parser, Ok(expr))

\* The while loop of parse_or.
parse_or_loop(parser, expr) ==
    IF parser.tok = "Or"
    THEN Once(parse_and(next_token(parser)),
              LAMBDA rhs :
                  IF ~rhs.r.ok THEN rhs
                  ELSE parse_or_loop(rhs.parser, Or(expr, rhs.r.value)))
    ELSE Parsed(parser, Ok(expr))

parse_or(parser) ==
    Once(parse_and(parser),
         LAMBDA expr :
             IF ~expr.r.ok THEN expr
             ELSE parse_or_loop(expr.parser, expr.r.value))

\* The while loop of parse_and.
parse_and_loop(parser, expr) ==
    IF parser.tok = "And"
    THEN Once(parse_not_loop(next_token(parser), FALSE),
              LAMBDA rhs :
                  IF ~rhs.r.ok THEN rhs
                  ELSE parse_and_loop(rhs.parser, And(expr, rhs.r.value)))
    ELSE Parsed(parser, Ok(expr))

parse_and(parser) ==
    Once(parse_not_loop(parser, FALSE),
         LAMBDA expr :
             IF ~expr.r.ok THEN expr
             ELSE parse_and_loop(expr.parser, expr.r.value))

\* parse_not from its while loop on, with the flip so far.
parse_not_loop(parser, flip) ==
    IF parser.tok = "Not" THEN parse_not_loop(next_token(parser), ~flip)
    ELSE Once(parse_atom(parser),
              LAMBDA expr :
                  IF ~expr.r.ok THEN expr
                  ELSE Parsed(expr.parser,
                              Ok(IF flip THEN Not(expr.r.value)
                                 ELSE expr.r.value)))

parse_not(parser) == parse_not_loop(parser, FALSE)

parse_atom(parser) ==
    IF parser.tok = "Atom"
    THEN Parsed(next_token(parser),
                Ok(IF parser.constants /\ parser.value = s_false
                   THEN Value(FALSE)
                   ELSE IF parser.constants /\ parser.value = s_true
                   THEN Value(TRUE)
                   ELSE Atom(parser.value)))
    ELSE IF parser.tok = "Open"
    THEN Once(parse_or(next_token(parser)),
              LAMBDA expr :
                  IF ~expr.r.ok THEN expr
                  ELSE IF expr.parser.tok # "Close"
                  THEN Parsed(expr.parser, Err("InvalidSyntax"))
                  ELSE Parsed(next_token(expr.parser), expr.r))
    ELSE Parsed(parser, Err("InvalidSyntax"))

\* Mutant of parse: what follows the expression is not looked at.
parse_prefix(text, constants) ==
    Once(parse_or(next_token([text |-> text, tok |-> "End", value |-> <<>>,
                              constants |-> constants])),
         LAMBDA value :
             IF value.parser.tok = "Error" THEN Err("InvalidToken")
             ELSE value.r)

\* Condition::parse and Expression::parse, from Parser {..} on.
parse(text, constants) ==
    Once(parse_or(next_token([text |-> text, tok |-> "End", value |-> <<>>,
                              constants |-> constants])),
         LAMBDA value :
             IF value.parser.tok = "Error" THEN Err("InvalidToken")
             ELSE IF ~value.r.ok THEN value.r
             ELSE IF value.parser.tok # "End" THEN Err("InvalidSyntax")
             ELSE value.r)

Condition_parse(text) == parse(text, TRUE)

Expression_parse(text) == parse(text, FALSE)

RECURSIVE Condition_write(_, _)
RECURSIVE write_binary(_, _, _, _, _)

\* Mutant of write_binary: no parentheses.
write_binary_ungrouped(lhs, rhs, prec, op_prec, symbol) ==
    Condition_write(lhs, op_prec) \o <<" ">> \o symbol \o <<" ">>
    \o Condition_write(rhs, op_prec)

\* write_binary; the text it pushes.
write_binary(lhs, rhs, prec, op_prec, symbol) ==
    LET group == prec > op_prec
    IN  (IF group THEN <<"(">> ELSE <<>>)
        \o Condition_write(lhs, op_prec) \o <<" ">> \o symbol \o <<" ">>
        \o Condition_write(rhs, op_prec)
        \o (IF group THEN <<")">> ELSE <<>>)

\* Condition::write and Operation::write; the text they push.
Condition_write(c, prec) ==
    CASE c[1] = "Value" -> IF c[2] THEN s_true ELSE s_false
      [] c[1] = "Atom" -> c[2]
      [] c[1] = "Not" -> <<"!">> \o Condition_write(c[2], 2)
      [] c[1] = "And" -> write_binary(c[2], c[3], prec, 1, <<"&", "&">>)
      [] c[1] = "Or" -> write_binary(c[2], c[3], prec, 0, <<"|", "|">>)

Condition_to_string(c) == Condition_write(c, 0)

\* Condition::evaluate_impl and Operation::evaluate_impl; eval_atom maps the
\* atoms to Some(bool) or Nothing.
RECURSIVE evaluate_impl(_, _)
evaluate_impl(c, eval_atom) ==
    CASE c[1] = "Value" -> Ok(c[2])
      [] c[1] = "Atom" ->
             IF ~eval_atom[c[2]].some THEN Err(c[2])
             ELSE Ok(eval_atom[c[2]].value)
      [] c[1] = "Not" ->
             LET expr == evaluate_impl(c[2], eval_atom)
             IN  IF ~expr.ok THEN expr ELSE Ok(~expr.value)
      [] c[1] \in {"And", "Or"} ->
             LET lhs == evaluate_impl(c[2], eval_atom)
                 rhs == evaluate_impl(c[3], eval_atom)
             IN  IF ~lhs.ok THEN lhs
                 ELSE IF ~rhs.ok THEN rhs
                 ELSE Ok(IF c[1] = "And" THEN lhs.value /\ rhs.value
                         ELSE lhs.value \/ rhs.value)

\* Mutant of Condition_and: the conjunction node, whatever the operands.
Condition_and_node(self, other) == And(self, other)

\* Condition::and
Condition_and(self, other) ==
    IF self[1] = "Value"
    THEN IF self[2] THEN other ELSE Value(FALSE)
    ELSE IF other[1] = "Value"
    THEN IF other[2] THEN self ELSE Value(FALSE)
    ELSE And(self, other)

\* The atoms of a condition.
RECURSIVE atoms_of(_)
atoms_of(c) ==
    CASE c[1] = "Value" -> {}
      [] c[1] = "Atom" -> {c[2]}
      [] c[1] = "Not" -> atoms_of(c[2])
      [] OTHER -> atoms_of(c[2]) \cup atoms_of(c[3])

\* The closures F: Fn(&str) -> Option<bool>, on the atoms of a condition.
Evaluators(atoms) == [atoms -> {Some(TRUE), Some(FALSE), Nothing}]

\* Pieces of condition texts, and the texts of the tests of both modules.
ConditionPieces ==
    {<<"x">>, <<"y">>, s_true, <<"!">>, <<"(">>, <<")">>, <<"&", "&">>,
     <<"|", "|">>, <<" ">>}

ConditionTests ==
    {<<"v", "a", "l", "u", "e">>,
     <<" ", " ", "a", "t", "o", "m", " ", " ">>,
     s_true,
     s_false,
     <<" ", " ">> \o s_false \o <<" ", " ">>,
     <<"x", " ", "&", "&", " ", "y">>,
     <<"!", "x">>,
     <<"x", " ", "&", "&", " ", "y", " ", "|", "|", " ", "z">>,
     <<"x", " ", "|", "|", " ", "y", " ", "&", "&", " ", "z">>,
     <<"(", "x", "&", "&", "(", "(", "z", "|", "|", "!", "a", ")", ")", ")">>,
     <<>>,
     <<"&", "&">>,
     <<"(", "x">>,
     <<"x", " ", "&", "&", " ", "y", " ", "|", "|">>,
     <<"x", " ", "y">>,
     <<"x", " ", "&", " ", "y">>,
     <<"x", " ", "|", "|", " ", "1">>,
     <<"(", "x", " ", "|">>,
     <<"!", "(", "x", "|", "|", "y", ")">>,
     <<"!", "(", "!", "x", ")">>,
     <<"(", "x", "|", "|", "y", ")", "&", "&", "z">>,
     <<"x", "&", "&", "(", "y", "&", "&", "z", ")">>,
     <<"x", "|", "|", "(", "y", "|", "|", "z", ")">>,
     <<"!", "(", "x", "&", "&", "y", ")", "|", "|", "z">>,
     <<"!", "(", "x", "&", "&", "(", "y", "|", "|", "z", ")", ")">>}

ConditionTexts ==
    {Concat(pieces) : pieces \in SeqsUpTo(ConditionPieces, MaxTokens)}

\* The text to parse.
InitCondition ==
    /\ \/ input \in ConditionTexts
       \/ input \in ConditionTests
    /\ returned = None
    /\ pc = "parse"
    /\ ToolRest

\* Condition::parse and Expression::parse of the text.
Parse ==
    /\ pc = "parse"
    /\ returned' = [condition |-> Condition_parse(input),
                    expression |-> Expression_parse(input)]
    /\ pc' = "parsed"
    /\ UNCHANGED <<input, generator_vars>>

\* to_string of the condition that was parsed.
CallToString ==
    /\ pc = "parsed"
    /\ returned.condition.ok
    /\ returned' = [condition |-> returned.condition,
                    expression |-> returned.expression,
                    string |-> Condition_to_string(returned.condition.value)]
    /\ pc' = "printed"
    /\ UNCHANGED <<input, generator_vars>>

\* Condition::parse of that string.
Reparse ==
    /\ pc = "printed"
    /\ returned' = [condition |-> returned.condition,
                    expression |-> returned.expression,
                    string |-> returned.string,
                    parsed |-> Condition_parse(returned.string)]
    /\ pc' = "reparsed"
    /\ UNCHANGED <<input, generator_vars>>

\* evaluate of both conditions with one closure; of the first one when the
\* string did not parse.
EvaluateBoth ==
    /\ pc = "reparsed"
    /\ \E eval_atom \in Evaluators(atoms_of(returned.condition.value)
                                  \cup IF returned.parsed.ok
                                       THEN atoms_of(returned.parsed.value)
                                       ELSE {}) :
           returned' =
               [condition |-> returned.condition,
                expression |-> returned.expression,
                string |-> returned.string,
                parsed |-> returned.parsed,
                eval_atom |-> eval_atom,
                value |-> evaluate_impl(returned.condition.value, eval_atom),
                parsed_value |->
                    IF returned.parsed.ok
                    THEN evaluate_impl(returned.parsed.value, eval_atom)
                    ELSE returned.parsed]
    /\ pc' = "done"
    /\ UNCHANGED <<input, generator_vars>>

NextCondition == Parse \/ CallToString \/ Reparse \/ EvaluateBoth

SpecCondition == InitCondition /\ [][NextCondition]_vars

-----------------------------------------------------------------------------
(* The grammar of build conditions *)

InvalidTokenText == <<"?">>

\* The tokens of a text: "!", "(", ")", "&&", "||" and names;
\* InvalidTokenText for a character that starts none of them.
RECURSIVE TokensOf(_)
TokensOf(text) ==
    IF Len(text) = 0 THEN <<>>
    ELSE
    LET c == Head(text)
    IN  IF c \in AsciiWhitespace THEN TokensOf(Tail(text))
        ELSE IF c \in {"!", "(", ")"} THEN <<<<c>>>> \o TokensOf(Tail(text))
        ELSE IF c \in {"&", "|"}
        THEN IF Len(text) >= 2 /\ text[2] = c
             THEN <<<<c, c>>>> \o TokensOf(SubSeq(text, 3, Len(text)))
             ELSE <<InvalidTokenText>> \o TokensOf(Tail(text))
        ELSE IF c \in IdentifierChar \ AsciiDigit
        THEN LET n == CHOOSE k \in 1..Len(text) :
                          /\ \A j \in 1..k : text[j] \in IdentifierChar
                          /\ k < Len(text) => text[k + 1] \notin IdentifierChar
             IN  <<SubSeq(text, 1, n)>> \o TokensOf(SubSeq(text, n + 1, Len(text)))
        ELSE <<InvalidTokenText>> \o TokensOf(Tail(text))

ValidTokens(text) == InvalidTokenText \notin Range(TokensOf(text))

IsName(token) == token[1] \in IdentifierChar

\* The condition of a name; constants: "true" and "false" are values.
Leaf(token, constants) ==
    IF constants /\ token = s_true THEN Value(TRUE)
    ELSE IF constants /\ token = s_false THEN Value(FALSE)
    ELSE Atom(token)

\* The number of "!" at the start of the tokens.
RECURSIVE Bangs(_)
Bangs(ts) ==
    IF Len(ts) # 0 /\ Head(ts) = <<"!">> THEN 1 + Bangs(Tail(ts)) ELSE 0

\* The conditions that the tokens ts denote as an operand of the given
\* level: "or" is a chain of "and" operands joined by "||" from the left,
\* "and" a chain of "not" operands joined by "&&" from the left, "not" an
\* atom behind any number of "!", of which pairs cancel, and "atom" a name or
\* an "or" in parentheses.
RECURSIVE Denoted(_, _, _)
Denoted(ts, level, constants) ==
    LET before(k) == SubSeq(ts, 1, k - 1)
        behind(k) == SubSeq(ts, k + 1, Len(ts))
        at(symbol) == {k \in 1..Len(ts) : ts[k] = symbol}
    IN  CASE level = "or" ->
                 Denoted(ts, "and", constants) \cup
                 UNION {{Or(l, r) : l \in Denoted(before(k), "or", constants),
                                    r \in Denoted(behind(k), "and", constants)} :
                        k \in at(<<"|", "|">>)}
          [] level = "and" ->
                 Denoted(ts, "not", constants) \cup
                 UNION {{And(l, r) : l \in Denoted(before(k), "and", constants),
                                     r \in Denoted(behind(k), "not", constants)} :
                        k \in at(<<"&", "&">>)}
          [] level = "not" ->
                 LET n == Bangs(ts)
                     atoms == Denoted(SubSeq(ts, n + 1, Len(ts)), "atom", constants)
                 IN  IF n % 2 = 1 THEN {Not(t) : t \in atoms} ELSE atoms
          [] level = "atom" ->
                 IF Len(ts) = 1 /\ IsName(ts[1]) THEN {Leaf(ts[1], constants)}
                 ELSE IF Len(ts) >= 2 /\ ts[1] = <<"(">> /\ ts[Len(ts)] = <<")">>
                 THEN Denoted(SubSeq(ts, 2, Len(ts) - 1), "or", constants)
                 ELSE {}

\* The conditions that a text denotes.
ConditionsOf(text, constants) == Denoted(TokensOf(text), "or", constants)

a_x == Atom(<<"x">>)
a_y == Atom(<<"y">>)
a_z == Atom(<<"z">>)

\* The result r is Ok(t).
IsOk(r, t) == r.ok /\ r.value = t

\* C24: Build-condition precedence.  Condition::parse and Expression::parse
\* read "!" as binding tighter than "&&" and "&&" tighter than "||", and
\* parentheses override: a text of valid tokens that denotes a condition
\* parses to that condition, white space around the tokens ignored; so
\* "x && y || z" is Or(And(x, y), z), "x || y && z" is Or(x, And(y, z)) and
\* "(x&&((z||!a)))" is And(x, Or(z, Not(a))); for Condition the names "true"
\* and "false" are constant values.
C24_Precedence ==
    (pc # "parse" /\ ValidTokens(input)) =>
        /\ \A t \in ConditionsOf(input, TRUE) : IsOk(returned.condition, t)
        /\ \A t \in ConditionsOf(input, FALSE) : IsOk(returned.expression, t)
        /\ input = <<"x", " ", "&", "&", " ", "y", " ", "|", "|", " ", "z">> =>
               /\ IsOk(returned.condition, Or(And(a_x, a_y), a_z))
               /\ IsOk(returned.expression, Or(And(a_x, a_y), a_z))
        /\ input = <<"x", " ", "|", "|", " ", "y", " ", "&", "&", " ", "z">> =>
               /\ IsOk(returned.condition, Or(a_x, And(a_y, a_z)))
               /\ IsOk(returned.expression, Or(a_x, And(a_y, a_z)))
        /\ input = <<"(", "x", "&", "&", "(", "(", "z", "|", "|", "!", "a", ")", ")", ")">> =>
               /\ IsOk(returned.condition, And(a_x, Or(a_z, Not(Atom(<<"a">>)))))
               /\ IsOk(returned.expression, And(a_x, Or(a_z, Not(Atom(<<"a">>)))))
        /\ input = <<" ", " ">> \o s_false \o <<" ", " ">> =>
               /\ IsOk(returned.condition, Value(FALSE))
               /\ IsOk(returned.expression, Atom(s_false))
        /\ input = s_true =>
               /\ IsOk(returned.condition, Value(TRUE))
               /\ IsOk(returned.expression, Atom(s_true))

\* "x || y && z" was parsed.
C24_Witness ==
    /\ pc = "parsed"
    /\ input = <<"x", " ", "|", "|", " ", "y", " ", "&", "&", " ", "z">>
    /\ IsOk(returned.condition, Or(a_x, And(a_y, a_z)))

\* Texts of three operands and both operators denote a condition.
C24_Mixed ==
    /\ pc = "parsed"
    /\ Len(TokensOf(input)) = 4
    /\ \E l, r \in {a_x, a_y} : IsOk(returned.condition, Or(Not(l), r))

\* C25: Build-condition syntax errors.  For every text of valid tokens that
\* is not a complete expression up to its end (the empty text, an operator
\* without an operand, a parenthesis that is not closed, two atoms side by
\* side), Condition::parse returns Err(InvalidSyntax), never Ok.
C25_InvalidSyntax ==
    (pc # "parse" /\ ValidTokens(input) /\ ConditionsOf(input, TRUE) = {}) =>
        ~returned.condition.ok /\ returned.condition.error = "InvalidSyntax"

\* "x y" was refused.
C25_Witness ==
    /\ pc = "parsed"
    /\ input = <<"x", " ", "y">>
    /\ ConditionsOf(input, TRUE) = {}
    /\ ~returned.condition.ok
    /\ returned.condition.error = "InvalidSyntax"

-----------------------------------------------------------------------------
(* The shader manifest (tools/src/shader/spec.rs) *)

MaxPrograms == 3

\* ShaderManifest::new
ShaderManifest_new == [shaders |-> <<>>, names |-> EmptyMap]

\* ShaderManifest::add: the manifest afterwards and the index returned.
ShaderManifest_add(self, name) ==
    IF name \notin DOMAIN self.names
    THEN LET index == Len(self.shaders)
         IN  [self |-> [shaders |-> Append(self.shaders, name),
                        names |-> map_insert(self.names, name, index)],
              index |-> index]
    ELSE [self |-> self, index |-> self.names[name]]

\* Shader {ty, name}
Shader(ty, name) == [ty |-> ty, name |-> name]

\* Program {name, vertex, fragment}
Program(name, vertex, fragment) ==
    [name |-> name, vertex |-> vertex, fragment |-> fragment]

\* Source files by their extension (parse.rs gives a program one ".vert"
\* and one ".frag" file).
VertexFiles == {"a.vert", "b.vert"}
FragmentFiles == {"x.frag", "y.frag"}

\* Spec {programs}
ShaderSpecs ==
    [programs : SeqsUpTo({Program("p", v, f) : v \in VertexFiles,
                                              f \in FragmentFiles},
                         MaxPrograms)]

\* to_manifest before its first loop.
InitManifest ==
    /\ input \in ShaderSpecs
    /\ returned = [vertex_shaders |-> ShaderManifest_new,
                   fragment_shaders |-> ShaderManifest_new,
                   programs |-> <<>>]
    /\ pc = "programs"
    /\ ToolRest

\* One turn of the loop over self.programs.
PushProgram ==
    /\ pc = "programs"
    /\ Len(returned.programs) < Len(input.programs)
    /\ LET program == input.programs[Len(returned.programs) + 1]
           vertex == ShaderManifest_add(returned.vertex_shaders, program.vertex)
           fragment == ShaderManifest_add(returned.fragment_shaders,
                                          program.fragment)
       IN  returned' = [vertex_shaders |-> vertex.self,
                        fragment_shaders |-> fragment.self,
                        programs |-> Append(returned.programs,
                                            Program(program.name, vertex.index,
                                                    fragment.index))]
    /\ UNCHANGED <<input, pc, generator_vars>>

\* The rest of to_manifest: the offset of the fragment indexes, the shaders
\* of both kinds, and Manifest {shaders, programs}.
MakeManifest ==
    /\ pc = "programs"
    /\ Len(returned.programs) = Len(input.programs)
    /\ LET fragment_offset == Len(returned.fragment_shaders.shaders)
           vertex_shaders == returned.vertex_shaders.shaders
           fragment_shaders == returned.fragment_shaders.shaders
       IN  returned' =
               [shaders |->
                    [n \in 1..Len(vertex_shaders) |->
                        Shader("Vertex", vertex_shaders[n])]
                    \o [n \in 1..Len(fragment_shaders) |->
                           Shader("Fragment", fragment_shaders[n])],
                programs |->
                    [n \in 1..Len(returned.programs) |->
                        [returned.programs[n] EXCEPT
                             !.fragment = @ + fragment_offset]]]
    /\ pc' = "done"
    /\ UNCHANGED <<input, generator_vars>>

NextManifest == PushProgram \/ MakeManifest

SpecManifest == InitManifest /\ [][NextManifest]_vars

\* The entry of the manifest at an index that counts from 0, "none" when
\* the index is outside the shaders.
ShaderAt(index) ==
    IF index + 1 \in 1..Len(returned.shaders)
    THEN returned.shaders[index + 1]
    ELSE Shader("none", "none")

\* C26: Shader manifest indices.  In the Manifest of every Spec each file
\* name of the Spec is the name of exactly one shader, and for every program
\* the vertex and fragment indexes are within the shaders, at the Vertex
\* entry of the program's vertex file and at the Fragment entry of its
\* fragment file.
C26_ManifestIndices ==
    pc = "done" =>
        /\ \A p \in 1..Len(input.programs) :
               \A file \in {input.programs[p].vertex, input.programs[p].fragment} :
                   Cardinality({n \in 1..Len(returned.shaders) :
                                   returned.shaders[n].name = file}) = 1
        /\ Len(returned.programs) = Len(input.programs)
        /\ \A p \in 1..Len(input.programs) :
               /\ ShaderAt(returned.programs[p].vertex) =
                      Shader("Vertex", input.programs[p].vertex)
               /\ ShaderAt(returned.programs[p].fragment) =
                      Shader("Fragment", input.programs[p].fragment)

\* C26 for the specs with as many vertex files as fragment files (what the
\* code does).
C26_EqualCounts ==
    (/\ pc = "done"
     /\ Cardinality({input.programs[p].vertex : p \in 1..Len(input.programs)})
            = Cardinality({input.programs[p].fragment :
                              p \in 1..Len(input.programs)})) =>
        C26_ManifestIndices

-----------------------------------------------------------------------------
(* C strings: StringWriter on its own *)

MaxWrites == 3

\* A slice that fills half a line.
LongSlice == [n \in 1..40 |-> "b"]

\* The slices that are written: letters, a hexadecimal digit, a quote, a
\* backslash, control bytes, bytes above 126, and a long slice.
Slices ==
    {<<"g">>, <<"a">>, <<"\"">>, <<"\\">>, <<"\n">>, <<NUL>>, <<"0x7f">>,
     <<"0x80", "g">>, <<"\f", "g">>, LongSlice}

\* StringWriter::new on an empty line; nothing is written yet.
InitStringWriter ==
    /\ input = <<>>
    /\ returned = StringWriter_new
    /\ pc = "write"
    /\ ToolRest

\* StringWriter::write of one slice.
Write ==
    /\ pc = "write"
    /\ Len(input) < MaxWrites
    /\ \E text \in Slices :
           /\ input' = Append(input, text)
           /\ returned' = StringWriter_write(returned, text)
    /\ UNCHANGED <<pc, generator_vars>>

\* StringWriter::finish; what is left is the text.
Finish ==
    /\ pc = "write"
    /\ returned' = StringWriter_finish(returned)
    /\ pc' = "done"
    /\ UNCHANGED <<input, generator_vars>>

NextStringWriter == Write \/ Finish

SpecStringWriter == InitStringWriter /\ [][NextStringWriter]_vars

\* The lengths of the lines of a text.
LineLengths(text) ==
    LET ends == {0} \cup {i \in 1..Len(text) : text[i] = "\n"} \cup {Len(text) + 1}
    IN  {p[2] - p[1] - 1 :
            p \in {q \in ends \X ends :
                      /\ q[1] < q[2]
                      /\ \A m \in ends : ~(q[1] < m /\ m < q[2])}}

\* C27: C string round trip.  For every sequence of slices written through
\* a StringWriter, the text read as adjacent C string literals gives the
\* bytes written, in order (quotes, backslashes, control bytes and bytes
\* above 126 included, whatever follows them), and no line of the text is
\* longer than 79 characters.
C27_RoundTrip ==
    pc = "done" =>
        /\ CStringBytes(returned) = Concat(input)
        /\ \A n \in LineLengths(returned) : n <= 79

\* C27 for slices without quotes and backslashes, and without a hexadecimal
\* digit behind a byte that is written as \x (what the code does).
C27_PlainBytes ==
    (/\ pc = "done"
     /\ LET bytes == Concat(input)
        IN  \A i \in 1..Len(bytes) :
                /\ bytes[i] \notin {"\"", "\\"}
                /\ (bytes[i] \in HexBytes /\ i < Len(bytes)) =>
                       bytes[i + 1] \notin HexDigits) =>
        C27_RoundTrip

\* A text of more than one line was written.
C27_TwoLines == pc = "done" /\ Cardinality(LineLengths(returned)) > 2

-----------------------------------------------------------------------------
(* Condition::and *)

MaxDepth == 1

\* Conditions without operations.
Leaves == {Value(TRUE), Value(FALSE), Atom(<<"x">>), Atom(<<"y">>)}

\* The conditions with operations nested at most depth deep.
RECURSIVE Conditions(_)
Conditions(depth) ==
    IF depth = 0 THEN Leaves
    ELSE LET inner == Conditions(depth - 1)
         IN  inner \cup {Not(c) : c \in inner}
                   \cup {And(l, r) : l, r \in inner}
                   \cup {Or(l, r) : l, r \in inner}

\* self and other of Condition::and: one of them without operations.
AndOperands ==
    (Conditions(MaxDepth) \X Leaves) \cup (Leaves \X Conditions(MaxDepth))

InitAnd ==
    /\ input \in AndOperands
    /\ returned = None
    /\ pc = "and"
    /\ ToolRest

\* self.and(&other)
CallAnd ==
    /\ pc = "and"
    /\ returned' = [condition |-> Condition_and(input[1], input[2])]
    /\ pc' = "evaluate"
    /\ UNCHANGED <<input, generator_vars>>

\* evaluate of the condition that and has returned.
EvaluateAnd ==
    /\ pc = "evaluate"
    /\ \E eval_atom \in Evaluators(atoms_of(input[1]) \cup atoms_of(input[2])) :
           returned' = [condition |-> returned.condition,
                        eval_atom |-> eval_atom,
                        value |-> evaluate_impl(returned.condition, eval_atom)]
    /\ pc' = "done"
    /\ UNCHANGED <<input, generator_vars>>

NextAnd == CallAnd \/ EvaluateAnd

SpecAnd == InitAnd /\ [][NextAnd]_vars

\* Two results of evaluate are the same boolean or the same EvalError.
SameOutcome(a, b) ==
    /\ a.ok = b.ok
    /\ IF a.ok THEN a.value = b.value ELSE a.error = b.error

\* Operation::And(self, other) evaluated with the closure of the state.
NodeOutcome == evaluate_impl(And(input[1], input[2]), returned.eval_atom)

IsFalse(c) == c[1] = "Value" /\ ~c[2]

\* C28 as stated: for all conditions a and b and every closure, also one
\* that is undefined on atoms, a.and(b) evaluates to the outcome of the
\* node Operation::And(a, b): the same boolean, or the same EvalError.
C28_And_AsStated ==
    pc = "done" => SameOutcome(returned.value, NodeOutcome)

\* C28, amended: a.and(b) evaluates to the outcome of the node
\* Operation::And(a, b), except that it evaluates to Ok(false) where one
\* operand is the constant false and the node gives the EvalError of the
\* other operand.
C28_And ==
    pc = "done" =>
        IF (IsFalse(input[1]) \/ IsFalse(input[2])) /\ ~NodeOutcome.ok
        THEN returned.value.ok /\ returned.value.value = FALSE
        ELSE SameOutcome(returned.value, NodeOutcome)

\* false.and(x) was evaluated with x undefined, and so was the node.
C28_Witness ==
    /\ pc = "done"
    /\ IsFalse(input[1])
    /\ input[2] = Atom(<<"x">>)
    /\ ~returned.eval_atom[<<"x">>].some
    /\ ~NodeOutcome.ok
    /\ returned.value.ok

\* A conjunction node of two operations was built and gave an EvalError.
C28_Node ==
    /\ pc = "done"
    /\ returned.condition[1] = "And"
    /\ input[1][1] = "Or"
    /\ ~returned.value.ok
    /\ SameOutcome(returned.value, NodeOutcome)

-----------------------------------------------------------------------------
(* Extensions that are not requested *)

MaxSkipped == 2

Unused == Element("unused", NoAttrs, <<>>)

\* <extension> items with a <remove> child, with an unknown child, and
\* with an unknown grandchild.
SkippedItems ==
    {Extension(GL_E, <<ws, Require(<<Command(glA)>>)>>),
     Extension(GL_E, <<Require(<<Command(glB)>>),
                       Remove(s_core, <<Command(glA)>>)>>),
     Extension(GL_F, <<Unused, Require(<<EnumRef(GL_X)>>)>>),
     Extension(GL_F, <<Require(<<Command(glB), Unused>>)>>)}

InitSkipped ==
    /\ registry \in {Registry(<<Extensions(items)>>) :
                        items \in SeqsUpTo(SkippedItems, MaxSkipped)}
    /\ api \in [version : {Version(1, 0)},
                extensions : {<<>>, <<GL_E>>, <<GL_F>>, <<GL_E, GL_F>>}]
    /\ link \in [version : {Version(1, 0)}, extensions : {<<>>, <<GL_E>>}]
    /\ entry_points = NoFile
    /\ InitRest

SpecSkipped == InitSkipped /\ [][NextResolve]_vars

\* The <extension> elements of the registry of the state whose name is in
\* the requested extension map, in document order.
RequestedItems ==
    SelectSeq(registry.children[1].children,
              LAMBDA item : item.attrs.name \in Range(api.extensions))

SkippedElements ==
    SelectSeq(registry.children[1].children,
              LAMBDA item : item.attrs.name \notin Range(api.extensions))

ElementsOf(node) == {c \in Range(node.children) : c.tag # "#text"}

\* The element children of the <require> children of the items.
Required(items) ==
    UNION {ElementsOf(r) :
              r \in UNION {{c \in ElementsOf(item) : c.tag = "require"} :
                              item \in Range(items)}}

\* FeatureSet::build has returned.
Resolved == pc = "features" \/ (pc = "failed" /\ spec # NoSpec)

\* C29: an <extension> whose name is not in the requested extension map
\* adds no enum and no command to the FeatureSet and its children are not
\* examined: resolution fails only for a child of a requested extension,
\* and its commands and enums are those of the <require> children of the
\* requested extensions.  A child element other than <require> in a
\* requested extension aborts resolution with an unexpected-tag error.
C29_SkippedExtensions ==
    Resolved =>
        /\ (\E item \in Range(RequestedItems) :
               \E c \in ElementsOf(item) : c.tag # "require")
               => /\ pc = "failed"
                  /\ error[1] = "XML" /\ error[2] = "UnexpectedTag"
        /\ pc = "failed" =>
               \/ \E item \in Range(RequestedItems) :
                      \E c \in ElementsOf(item) :
                          c.tag # "require" /\ error[3] = c.tag
                                            /\ error[4] = "extension"
               \/ \E c \in Required(RequestedItems) :
                      c.tag \notin {"command", "enum", "type"}
                          /\ error[3] = c.tag /\ error[4] = "require"
        /\ pc = "features" =>
               /\ DOMAIN features.commands =
                      {c.attrs.name : c \in {d \in Required(RequestedItems) :
                                                d.tag = "command"}}
               /\ features.enums =
                      {c.attrs.name : c \in {d \in Required(RequestedItems) :
                                                d.tag = "enum"}}

\* GL_E is requested and GL_F is not; the registry declares GL_F with an
\* unknown child and GL_E with a <require>: the command of GL_E is the
\* whole API.
C29_Witness ==
    /\ pc = "features"
    /\ api.extensions = <<GL_E>>
    /\ \E item \in Range(SkippedElements) :
           \E c \in ElementsOf(item) : c.tag = "unused"
    /\ DOMAIN features.commands = {glA}
    /\ features.enums = {}

\* A requested extension with a <remove> child has aborted resolution.
C29_RemoveChild ==
    /\ pc = "failed"
    /\ spec # NoSpec
    /\ api.extensions = <<GL_E>>
    /\ error = <<"XML", "UnexpectedTag", "remove", "extension">>

\* No extension is requested, one of the registry holds a <remove> child
\* and resolution has succeeded.
C29_RemoveSkipped ==
    /\ pc = "features"
    /\ api.extensions = <<>>
    /\ \E item \in Range(SkippedElements) :
           \E c \in ElementsOf(item) : c.tag = "remove"

-----------------------------------------------------------------------------
(* to_string and parse of a condition *)

\* C30: for every condition e that Condition::parse returns,
\* Condition::parse(e.to_string()) succeeds and its condition evaluates
\* with every closure to the result of e: the same boolean or the same
\* EvalError.
C30_PrintParse ==
    /\ pc \in {"reparsed", "done"} => returned.parsed.ok
    /\ pc = "done" => SameOutcome(returned.value, returned.parsed_value)

\* A conjunction whose right side is written in parentheses was parsed
\* again and both conditions gave the same EvalError.
C30_Witness ==
    /\ pc = "done"
    /\ returned.condition.value[1] = "And"
    /\ returned.condition.value[3][1] = "Or"
    /\ "(" \in Range(returned.string)
    /\ returned.parsed.ok
    /\ ~returned.value.ok
    /\ SameOutcome(returned.value, returned.parsed_value)

\* x && (y && z) is written without parentheses and parsed again as
\* (x && y) && z.
C30_Reassociated ==
    /\ pc = "done"
    /\ returned.condition.value[1] = "And"
    /\ returned.condition.value[3][1] = "And"
    /\ returned.parsed.ok
    /\ returned.parsed.value[2][1] = "And"
    /\ returned.value.ok

\* !(!x) is written as !!x and parsed again as x.
C30_DoubleNot ==
    /\ pc = "done"
    /\ returned.condition.value[1] = "Not"
    /\ returned.condition.value[2][1] = "Not"
    /\ returned.parsed.ok
    /\ returned.parsed.value[1] = "Atom"

-----------------------------------------------------------------------------
(* GLAPI::run (tools/src/project/generator.rs) and the sources of a
   configuration (tools/src/project/sources.rs) *)

\* A Source and the text of its file under the project root, NoFile for a
\* file that cannot be read.
SourceFile(path, is_generated, text) ==
    [path |-> path, is_generated |-> is_generated, text |-> text]

\* struct Group; the generators hold no source of their own.
Group(condition, group_sources, subgroups) ==
    [condition |-> condition, sources |-> group_sources,
     subgroups |-> subgroups]

\* Group::append_sources_config, and its loop over the subgroups from
\* index i on; out is the Vec of sources of the SourceList.
RECURSIVE append_sources_config(_, _, _)
RECURSIVE append_subgroups_config(_, _, _, _)
append_sources_config(self, out, cfg) ==
    LET included ==
            IF self.condition.some
            THEN evaluate_impl(self.condition.value,
                               [tag \in atoms_of(self.condition.value) |->
                                   Config_eval_tag(cfg, tag)])
            ELSE Ok(TRUE)
    IN  IF ~included.ok THEN Err(<<"EvalError", included.error>>)
        ELSE IF ~included.value THEN Ok(out)
        ELSE append_subgroups_config(self, out \o self.sources, 1, cfg)

append_subgroups_config(self, out, i, cfg) ==
    IF i > Len(self.subgroups) THEN Ok(out)
    ELSE LET r == append_sources_config(self.subgroups[i], out, cfg)
         IN  IF ~r.ok THEN r
             ELSE append_subgroups_config(self, r.value, i + 1, cfg)

\* v with source put behind the last element whose path is not above its
\* path.
RECURSIVE sort_by_insert(_, _)
sort_by_insert(v, source) ==
    IF Len(v) = 0 THEN <<source>>
    ELSE IF str_le(v[Len(v)].path, source.path) THEN Append(v, source)
    ELSE Append(sort_by_insert(SubSeq(v, 1, Len(v) - 1), source), v[Len(v)])

\* SourceList::sort: self.sources.sort_by(path), a stable sort.
RECURSIVE SourceList_sort(_)
SourceList_sort(v) ==
    IF Len(v) = 0 THEN <<>>
    ELSE sort_by_insert(SourceList_sort(SubSeq(v, 1, Len(v) - 1)), v[Len(v)])

\* SourceSpec::sources_for_config
sources_for_config(self, cfg) ==
    LET r == append_sources_config(self, <<>>, cfg)
    IN  IF ~r.ok THEN r ELSE Ok(SourceList_sort(r.value))

\* The loop of GLAPI::run over sources.sources(): the sources that are not
\* generated.
flat_sources(source_list) ==
    SelectSeq(source_list, LAMBDA source : ~source.is_generated)

\* The for loop of read_file_entrypoints over Identifiers::new(&text).
RECURSIVE read_file_entrypoints_loop(_, _)
read_file_entrypoints_loop(identifiers, found) ==
    LET n == Identifiers_next(identifiers)
    IN  IF ~n.item.some THEN found
        ELSE read_file_entrypoints_loop(
                 n.rest,
                 IF is_entrypoint(n.item.value)
                 THEN found \cup {n.item.value} ELSE found)

\* scan::read_file_entrypoints
read_file_entrypoints(file) ==
    IF file.text = NoFile THEN Err("Io")
    ELSE Ok(read_file_entrypoints_loop(file.text, {}))

\* scan::read_entrypoints, from the file of index i on.
RECURSIVE read_entrypoints_loop(_, _, _)
read_entrypoints_loop(source_files, i, found) ==
    IF i > Len(source_files) THEN Ok(found)
    ELSE LET file_entrypoints == read_file_entrypoints(source_files[i])
         IN  IF ~file_entrypoints.ok
             THEN Err(<<"FileError", source_files[i].path,
                        file_entrypoints.error>>)
             ELSE read_entrypoints_loop(
                      source_files, i + 1,
                      found \cup file_entrypoints.value)

read_entrypoints(source_files) == read_entrypoints_loop(source_files, 1, {})

\* The Some(config) branch of GLAPI::run up to the entry points.
run_entry_points(self, cfg) ==
    LET list == sources_for_config(self, cfg)
    IN  IF ~list.ok THEN list
        ELSE read_entrypoints(flat_sources(list.value))

\* GLAPI::run, None => api.make_bindings()
RunBindings ==
    /\ pc = "api"
    /\ ~config.some
    /\ Bind(make_bindings(enums, functions, extensions))
    /\ UNCHANGED <<input, returned, config, properties, registry, api, link,
                   entry_points, spec, features, enums, functions,
                   extensions, files>>

\* GLAPI::run, Some(config) => sources.sources_for_config(config)?, the
\* sources that are not generated, scan::read_entrypoints(&flat_sources)?,
\* api.make_subset_bindings(&entry_points)?.  returned keeps the entry
\* points.
RunSubsetBindings ==
    /\ pc = "api"
    /\ config.some
    /\ LET found == run_entry_points(input, config.value)
       IN  IF ~found.ok
           THEN Fail(found.error) /\ UNCHANGED <<bindings, returned>>
           ELSE /\ returned' = [entry_points |-> found.value]
                /\ Bind(make_subset_bindings(enums, functions, extensions,
                                             found.value))
    /\ UNCHANGED <<input, config, properties, registry, api, link,
                   entry_points, spec, features, enums, functions,
                   extensions, files>>

a_cpp == <<"s", "r", "c", "/", "a", ".", "c", "p", "p">>
b_cpp == <<"s", "r", "c", "/", "b", ".", "c", "p", "p">>
w_cpp == <<"s", "r", "c", "/", "w", ".", "c", "p", "p">>
g_cpp == <<"s", "r", "c", "/", "g", "e", "n", "e", "r", "a", "t", "e",
           "d", "/", "g", ".", "c", "p", "p">>

\* Source texts that name glA and glB.
t_call_glB == glB \o <<"(", "1", ")", ";", "\n">>
t_glB_glA == glB \o <<" ">> \o glA \o <<"\n">>
t_assign_glB == <<"x", " ", "=", " ">> \o glB \o <<";", "\n">>
t_glA_in_f ==
    <<"v", "o", "i", "d", " ", "f", "(", ")", " ", "{", " ">> \o glA
    \o <<"(", ")", ";", " ", "}", "\n">>
t_glZ == <<" ", " ">> \o glZ \o <<"\n">> \o glB

\* SourceSpec values: a group for windows and a generated source; a
\* condition with a tag that no configuration defines; a file that cannot
\* be read; two files out of order; a name that no registry declares.
WindowsSources ==
    Group(Nothing,
          <<SourceFile(b_cpp, FALSE, t_call_glB),
            SourceFile(g_cpp, TRUE, t_glB_glA)>>,
          <<Group(Some(And(Atom(s_windows), Not(Atom(s_compo)))),
                  <<SourceFile(w_cpp, FALSE, t_glA_in_f)>>, <<>>)>>)

UndefinedTagSources ==
    Group(Some(Atom(s_unix)),
          <<SourceFile(b_cpp, FALSE, t_assign_glB)>>,
          <<Group(Some(Or(Atom(s_linux), Atom(<<"x">>))), <<>>, <<>>)>>)

UnreadableSources ==
    Group(Nothing,
          <<SourceFile(g_cpp, TRUE, NoFile),
            SourceFile(b_cpp, FALSE, t_call_glB),
            SourceFile(a_cpp, FALSE, NoFile)>>,
          <<>>)

TwoFileSources ==
    Group(Nothing,
          <<SourceFile(b_cpp, FALSE, t_assign_glB),
            SourceFile(a_cpp, FALSE, t_glA_in_f)>>,
          <<>>)

UnknownNameSources ==
    Group(Nothing, <<SourceFile(a_cpp, FALSE, t_glZ)>>, <<>>)

s_linux_full == s_linux \o <<":">> \o s_full

\* The "config" property and the SourceSpec of a run.
GeneratorRuns ==
    {<<None, WindowsSources>>,
     <<s_linux_full, WindowsSources>>,
     <<<<"W", "i", "n", "d", "o", "w", "s", ":", "F", "U", "L", "L">>,
       WindowsSources>>,
     <<s_windows \o <<":">> \o s_compo, UndefinedTagSources>>,
     <<s_linux_full, UndefinedTagSources>>,
     <<s_macos \o <<":">> \o s_compo, UnreadableSources>>,
     <<s_linux_full, TwoFileSources>>,
     <<s_linux_full, UnknownNameSources>>,
     <<s_linux, WindowsSources>>,
     <<<<"b", "s", "d", ":">> \o s_full, WindowsSources>>,
     <<s_linux \o <<":", "x">>, WindowsSources>>}

InitGenerator ==
    /\ \E run \in GeneratorRuns :
           /\ input = run[2]
           /\ properties \in [api : PropertyTexts \cup {None},
                              link : LinkTexts \cup {None},
                              config : {run[1]}]
    /\ returned = None
    /\ config = NoConfig
    /\ registry \in GeneratorRegistries
    /\ api = NoAPISpec
    /\ link = NoAPISpec
    /\ entry_points = NoFile
    /\ pc = "evaluate"
    /\ spec = NoSpec
    /\ features = EmptyFeatureSet
    /\ enums = <<>>
    /\ functions = <<>>
    /\ extensions = <<>>
    /\ bindings = NoBindings
    /\ files = NoFiles
    /\ error = <<>>

\* GLAPI::evaluate, then GLAPI::run: API::create and the bindings, of the
\* whole API or of the entry points of the sources of the configuration.
NextGenerator ==
    \/ Evaluate
    \/ FromSpecs
    \/ Build
    \/ EmitEnums
    \/ ParseAll
    \/ RunBindings
    \/ RunSubsetBindings

SpecGenerator == InitGenerator /\ [][NextGenerator]_vars

====
